---- MODULE Spec2Model ----
(***************************************************************************)
(* Model of the scalable backend of pybalt/challenges:                     *)
(*   - ContainerService (app/services/container_service.py): the pool of   *)
(*     pre-created agent containers and the session -> agent bindings;     *)
(*   - the session routes (app/routers/sessions.py) that call it;          *)
(*   - AgentWebSocketManager (app/websocket/agent_ws.py): the per-session  *)
(*     sets of WebSocket connections and the broadcast over them.          *)
(* The backend runs on one asyncio event loop: a coroutine runs without    *)
(* interruption between two awaits that suspend, so each action below is   *)
(* the code between two such awaits.                                       *)
(* The single-container backend (claude-computer-use/backend/app.py) is a  *)
(* program of its own; its create_session is modelled in its own section.  *)
(***************************************************************************)
EXTENDS Integers, Sequences, FiniteSets, TLC

\* Number of session ids the model draws from (uuid4 strings in the code).
NumSessions == 4

SessionIds == 1..NumSessions

\* container_service.py:21-25, the fixed pool.
agent_pool ==
    ("agent-1" :> [vnc_port |-> 5900, novnc_port |-> 6900,
                   container_name |-> "scalable-backend-agent-1-1"]) @@
    ("agent-2" :> [vnc_port |-> 5901, novnc_port |-> 6901,
                   container_name |-> "scalable-backend-agent-2-1"]) @@
    ("agent-3" :> [vnc_port |-> 5902, novnc_port |-> 6902,
                   container_name |-> "scalable-backend-agent-3-1"])

AgentIds == DOMAIN agent_pool

\* Number of WebSocket objects, of session ids they connect to, and of
\* container-event producers in the model.
NumConns == 3

NumWsSessions == 2

NumProducers == 1


\* Number of concurrent HTTP requests, and of ChatHistory rows written.
NumRequests == 2

MaxRows == 2

Conns == 1..NumConns
WsSessions == 1..NumWsSessions
Producers == 1..NumProducers
Requests == 1..NumRequests

VARIABLES
    available_agents,     \* ContainerService.available_agents: set of agent ids
    session_assignments,  \* ContainerService.session_assignments: dict session -> agent
    call,                 \* the allocator call that completed last, with its outcome
    call1,                \* the call before it
    call2,                \* the call before that
    active_connections,   \* AgentWebSocketManager.active_connections: dict session -> set
    connection_metadata,  \* AgentWebSocketManager.connection_metadata: dict ws -> metadata
    conn,                 \* per WebSocket: endpoint position, client_state, peer
    producer,             \* per producer: position in handle_container_event
    jobs,                 \* per task: its broadcast_to_session call in progress
    db_sessions,          \* the sessions table: dict session id -> row
    chat_history,         \* the chat_history table: number of rows
    req,                  \* per HTTP request: route, position, locals, response
    sessions,             \* claude-computer-use: the sessions table, row id -> row
    containers,           \* claude-computer-use: the Docker host's containers
    handler               \* claude-computer-use: per create_session call, its position

alloc_vars == <<available_agents, session_assignments>>
hist_vars == <<call, call1, call2>>
hub_vars == <<active_connections, connection_metadata, conn, producer, jobs>>
db_vars == <<db_sessions, chat_history>>
cu_vars == <<sessions, containers, handler>>
vars == <<available_agents, session_assignments, call, call1, call2,
          active_connections, connection_metadata, conn, producer, jobs,
          db_sessions, chat_history, req,
          sessions, containers, handler>>

----------------------------------------------------------------------------
(* Python dict helpers: a dict is a function whose domain is its key set.  *)

DictSet(d, k, v) == [x \in (DOMAIN d) \cup {k} |-> IF x = k THEN v ELSE d[x]]

DictDel(d, k) == [x \in (DOMAIN d) \ {k} |-> d[x]]

EmptyDict == [x \in {} |-> "None"]

----------------------------------------------------------------------------
(* The database (app/database/models.py), as the session routes and the    *)
(* hub use it.  db_sessions is the sessions table: session id -> row.      *)
(* chat_history is the number of committed ChatHistory rows.               *)

SessionRow(status, container_id) ==
    [status |-> status, container_id |-> container_id]

\* models.py:26, container_id is UNIQUE: a commit that would give two rows
\* the same container_id raises IntegrityError.
ContainerTaken(db, session_id, container_id) ==
    \E s \in (DOMAIN db) \ {session_id} : db[s].container_id = container_id

\* models.py:44, chat_history.session_id REFERENCES sessions.id.
ChatInsertAllowed(db, session_id) == session_id \in DOMAIN db

----------------------------------------------------------------------------
(* ContainerService.  Its state is passed as a record cs so that a handler *)
(* can make several calls in one uninterrupted step.  Every method returns *)
(* the new state, the exception raised ("none" when it returns normally)   *)
(* and the returned value as a tuple (<<>> for None).                      *)

ContainerServiceInit ==
    [available_agents |-> AgentIds, session_assignments |-> EmptyDict]

Outcome(cs, exc, val) == [cs |-> cs, exc |-> exc, val |-> val]

ConnInfo(agent_id) ==
    <<agent_pool[agent_id].container_name, agent_pool[agent_id].vnc_port>>

\* Mutant: the agent is read from the available set but not removed from it.
create_session_container_peek(cs, session_id) ==
    IF cs.available_agents = {}
    THEN {Outcome(cs, "Exception", <<>>)}
    ELSE {Outcome([cs EXCEPT !.session_assignments =
                        DictSet(cs.session_assignments, session_id, agent_id)],
                  "none", ConnInfo(agent_id)) : agent_id \in cs.available_agents}

\* Mutant: on an empty pool the agent of some other session is taken over.
create_session_container_steal(cs, session_id) ==
    IF cs.available_agents = {}
    THEN {Outcome([cs EXCEPT !.session_assignments = DictDel(@, victim)],
                  "Exception", <<>>) : victim \in DOMAIN cs.session_assignments}
         \cup (IF DOMAIN cs.session_assignments = {}
               THEN {Outcome(cs, "Exception", <<>>)} ELSE {})
    ELSE {Outcome([available_agents |-> cs.available_agents \ {agent_id},
                   session_assignments |->
                        DictSet(cs.session_assignments, session_id, agent_id)],
                  "none", ConnInfo(agent_id)) : agent_id \in cs.available_agents}

\* container_service.py:31-50.  set.pop() takes an arbitrary member, so the
\* method has one outcome per available agent.
create_session_container(cs, session_id) ==
    IF cs.available_agents = {}
    THEN {Outcome(cs, "Exception", <<>>)}
    ELSE {Outcome([available_agents |-> cs.available_agents \ {agent_id},
                   session_assignments |->
                        DictSet(cs.session_assignments, session_id, agent_id)],
                  "none", ConnInfo(agent_id)) : agent_id \in cs.available_agents}

\* Mutant: the membership test is lost and an unknown session reports success.
stop_session_container_nocheck(cs, session_id) ==
    IF session_id \notin DOMAIN cs.session_assignments
    THEN {Outcome(cs, "none", <<TRUE>>)}
    ELSE {Outcome([available_agents |->
                        cs.available_agents \cup {cs.session_assignments[session_id]},
                   session_assignments |->
                        DictDel(cs.session_assignments, session_id)],
                  "none", <<TRUE>>)}

\* Mutant: the agent goes back to the pool but the binding is not deleted.
stop_session_container_keep(cs, session_id) ==
    IF session_id \notin DOMAIN cs.session_assignments
    THEN {Outcome(cs, "none", <<FALSE>>)}
    ELSE {Outcome([cs EXCEPT !.available_agents =
                        @ \cup {cs.session_assignments[session_id]}],
                  "none", <<TRUE>>)}

\* Mutant: the binding is deleted but the agent never returns to the pool.
stop_session_container_leak(cs, session_id) ==
    IF session_id \notin DOMAIN cs.session_assignments
    THEN {Outcome(cs, "none", <<FALSE>>)}
    ELSE {Outcome([cs EXCEPT !.session_assignments = DictDel(@, session_id)],
                  "none", <<TRUE>>)}

\* container_service.py:82-102.  set.add and del cannot raise here, so the
\* except branch is never taken.
stop_session_container(cs, session_id) ==
    IF session_id \notin DOMAIN cs.session_assignments
    THEN {Outcome(cs, "none", <<FALSE>>)}
    ELSE {Outcome([available_agents |->
                        cs.available_agents \cup {cs.session_assignments[session_id]},
                   session_assignments |->
                        DictDel(cs.session_assignments, session_id)],
                  "none", <<TRUE>>)}

\* container_service.py:104-145.  Line 106 reads self.session_containers, an
\* attribute that __init__ (lines 19-28) never sets: the read raises
\* AttributeError outside the try block, on every call.
get_container_info(cs, session_id) ==
    {Outcome(cs, "AttributeError", <<>>)}

----------------------------------------------------------------------------
(* Direct callers of the allocator: any caller may call any method with    *)
(* any session id, in any order.  No method awaits, so each call is one    *)
(* step and concurrent calls are exactly the orderings of such steps.      *)

cs_now == [available_agents |-> available_agents,
           session_assignments |-> session_assignments]

NoCall == [op |-> "none", session_id |-> 0, pre |-> ContainerServiceInit,
           exc |-> "none", val |-> <<>>]

\* Mutant: the allocator keeps the observers of a session in its own state,
\* and a release forgets them.
Record_shared(op, session_id, out) ==
    /\ available_agents' = out.cs.available_agents
    /\ session_assignments' = out.cs.session_assignments
    /\ call' = [op |-> op, session_id |-> session_id, pre |-> cs_now,
                exc |-> out.exc, val |-> out.val]
    /\ call1' = call
    /\ call2' = call1
    /\ active_connections' =
            IF op = "stop" THEN EmptyDict ELSE active_connections
    /\ connection_metadata' =
            IF op = "stop" THEN EmptyDict ELSE connection_metadata
    /\ UNCHANGED <<conn, producer, jobs, db_vars, req>>
    /\ UNCHANGED cu_vars

Record(op, session_id, out) ==
    /\ available_agents' = out.cs.available_agents
    /\ session_assignments' = out.cs.session_assignments
    /\ call' = [op |-> op, session_id |-> session_id, pre |-> cs_now,
                exc |-> out.exc, val |-> out.val]
    /\ call1' = call
    /\ call2' = call1
    /\ UNCHANGED <<hub_vars, db_vars, req>>
    /\ UNCHANGED cu_vars

CallCreate(s) ==
    \E out \in create_session_container(cs_now, s) : Record("create", s, out)

CallStop(s) ==
    \E out \in stop_session_container(cs_now, s) : Record("stop", s, out)

CallInfo(s) ==
    \E out \in get_container_info(cs_now, s) : Record("info", s, out)

----------------------------------------------------------------------------
(* AgentWebSocketManager.  Its two dicts are passed as a record hs.        *)

ManagerInit ==
    [active_connections |-> EmptyDict, connection_metadata |-> EmptyDict]

hs_now == [active_connections |-> active_connections,
           connection_metadata |-> connection_metadata]

\* agent_ws.py:31-43, the registration part of connect.
register(hs, websocket, session_id) ==
    [active_connections |->
        DictSet(hs.active_connections, session_id,
                (IF session_id \in DOMAIN hs.active_connections
                 THEN hs.active_connections[session_id] ELSE {}) \cup {websocket}),
     connection_metadata |->
        DictSet(hs.connection_metadata, websocket,
                [session_id |-> session_id, user_id |-> "None"])]

\* Mutant: the set of a session is kept when its last member leaves.
disconnect_keep_empty(hs, websocket) ==
    IF websocket \notin DOMAIN hs.connection_metadata
    THEN hs
    ELSE LET session_id == hs.connection_metadata[websocket].session_id
         IN  [active_connections |->
                 IF session_id \notin DOMAIN hs.active_connections
                 THEN hs.active_connections
                 ELSE DictSet(hs.active_connections, session_id,
                              hs.active_connections[session_id] \ {websocket}),
              connection_metadata |-> DictDel(hs.connection_metadata, websocket)]

\* Mutant: a connection the hub does not know makes it start over.
disconnect_reset(hs, websocket) ==
    IF websocket \notin DOMAIN hs.connection_metadata
    THEN ManagerInit
    ELSE LET session_id == hs.connection_metadata[websocket].session_id
             left == IF session_id \in DOMAIN hs.active_connections
                     THEN hs.active_connections[session_id] \ {websocket}
                     ELSE {}
         IN  [active_connections |->
                 IF session_id \notin DOMAIN hs.active_connections
                 THEN hs.active_connections
                 ELSE IF left = {}
                      THEN DictDel(hs.active_connections, session_id)
                      ELSE DictSet(hs.active_connections, session_id, left),
              connection_metadata |-> DictDel(hs.connection_metadata, websocket)]

\* Mutant: the cleanup does nothing.
disconnect_nothing(hs, websocket) ==
    IF websocket \notin DOMAIN hs.connection_metadata THEN hs ELSE hs

\* Mutant: the whole session of the connection is dropped.
disconnect_session(hs, websocket) ==
    IF websocket \notin DOMAIN hs.connection_metadata
    THEN hs
    ELSE LET session_id == hs.connection_metadata[websocket].session_id
             members == IF session_id \in DOMAIN hs.active_connections
                        THEN hs.active_connections[session_id] ELSE {}
         IN  [active_connections |->
                 [s \in (DOMAIN hs.active_connections) \ {session_id} |->
                        hs.active_connections[s]],
              connection_metadata |->
                 [w \in (DOMAIN hs.connection_metadata)
                            \ (members \cup {websocket}) |->
                        hs.connection_metadata[w]]]

\* Mutant: the connection leaves its session's set but keeps its metadata.
disconnect_set_only(hs, websocket) ==
    IF websocket \notin DOMAIN hs.connection_metadata
    THEN hs
    ELSE LET session_id == hs.connection_metadata[websocket].session_id
             left == IF session_id \in DOMAIN hs.active_connections
                     THEN hs.active_connections[session_id] \ {websocket}
                     ELSE {}
         IN  [active_connections |->
                 IF session_id \notin DOMAIN hs.active_connections
                 THEN hs.active_connections
                 ELSE IF left = {}
                      THEN DictDel(hs.active_connections, session_id)
                      ELSE DictSet(hs.active_connections, session_id, left),
              connection_metadata |-> hs.connection_metadata]

\* agent_ws.py:55-74.
disconnect(hs, websocket) ==
    IF websocket \notin DOMAIN hs.connection_metadata
    THEN hs
    ELSE LET session_id == hs.connection_metadata[websocket].session_id
             left == IF session_id \in DOMAIN hs.active_connections
                     THEN hs.active_connections[session_id] \ {websocket}
                     ELSE {}
         IN  [active_connections |->
                 IF session_id \notin DOMAIN hs.active_connections
                 THEN hs.active_connections
                 ELSE IF left = {}
                      THEN DictDel(hs.active_connections, session_id)
                      ELSE DictSet(hs.active_connections, session_id, left),
              connection_metadata |-> DictDel(hs.connection_metadata, websocket)]

\* What one call of send_to_websocket can meet (agent_ws.py:80-87): the
\* client_state test skips a socket whose disconnect the endpoint has seen;
\* send_text to an open peer returns; to a peer that has gone it raises, or
\* returns when the transport has not noticed yet.
\* To a peer that has stopped reading, send_text does not return: the
\* caller stays suspended in its await ("pending").
SendOutcomes(c) ==
    IF c.client_state = "DISCONNECTED" THEN {"skipped"}
    ELSE IF c.peer = "open" THEN {"sent"}
    ELSE IF c.peer = "stalled" THEN {"pending"}
    ELSE {"sent", "raised"}

\* agent_ws.py:76-89.
send_to_websocket(hs, websocket, outcome) ==
    IF outcome \in {"sent", "pending"} THEN hs ELSE disconnect(hs, websocket)

NoJob == [state |-> "none", session_id |-> 0, type |-> "none", content |-> "",
          message_id |-> 0, snapshot |-> {}, remaining |-> {}, delivered |-> {},
          failed |-> {}, awaiting |-> {}, exc |-> "none"]

\* Mutant: without the early return an unknown session id falls back to
\* every connection of the hub.
broadcast_begin_all(hs, session_id, type) ==
    LET connections == IF session_id \in DOMAIN hs.active_connections
                       THEN hs.active_connections[session_id]
                       ELSE DOMAIN hs.connection_metadata
    IN  [state |-> IF connections = {} THEN "done" ELSE "sending",
         session_id |-> session_id, type |-> type, content |-> "",
         message_id |-> 0, snapshot |-> connections, remaining |-> connections,
         delivered |-> {}, failed |-> {}, awaiting |-> {}, exc |-> "none"]

\* agent_ws.py:93-98: the early return and the copy of the observer set.
broadcast_begin(hs, session_id, type) ==
    LET connections == IF session_id \in DOMAIN hs.active_connections
                       THEN hs.active_connections[session_id]
                       ELSE {}
    IN  [state |-> IF connections = {} THEN "done" ELSE "sending",
         session_id |-> session_id, type |-> type, content |-> "",
         message_id |-> 0, snapshot |-> connections, remaining |-> connections,
         delivered |-> {}, failed |-> {}, awaiting |-> {}, exc |-> "none"]

\* Mutant: send_to_websocket without its try/except: the exception leaves
\* the loop of broadcast_to_session and nothing is cleaned up.
broadcast_send_abort(hs, job, websocket, outcome) ==
    IF outcome = "sent"
    THEN [hs |-> hs,
          job |-> [job EXCEPT !.remaining = @ \ {websocket},
                              !.delivered = @ \cup {websocket},
                              !.state = IF job.remaining = {websocket}
                                        THEN "done" ELSE "sending"]]
    ELSE [hs |-> hs,
          job |-> [job EXCEPT !.remaining = @ \ {websocket},
                              !.failed = @ \cup {websocket},
                              !.state = "done"]]

\* Mutant: send_to_websocket cleans up and raises again: the exception ends
\* the loop and reaches the caller of broadcast_to_session.
broadcast_send_propagate(hs, job, websocket, outcome) ==
    [hs |-> send_to_websocket(hs, websocket, outcome),
     job |-> [job EXCEPT !.remaining = @ \ {websocket},
                         !.delivered = IF outcome = "sent"
                                       THEN @ \cup {websocket} ELSE @,
                         !.failed = IF outcome = "sent"
                                    THEN @ ELSE @ \cup {websocket},
                         !.exc = IF outcome = "raised" THEN "Exception" ELSE @,
                         !.state = IF job.remaining = {websocket}
                                      \/ outcome = "raised"
                                   THEN "done" ELSE "sending"]]

\* Mutant: the loop runs over the live observer set, not over the copy.
broadcast_send_live(hs, job, websocket, outcome) ==
    LET after == send_to_websocket(hs, websocket, outcome)
        live == IF job.session_id \in DOMAIN after.active_connections
                THEN after.active_connections[job.session_id] ELSE {}
        rest == (live \ (job.delivered \cup job.failed)) \ {websocket}
    IN  [hs |-> after,
         job |-> [job EXCEPT !.remaining = rest,
                             !.delivered = IF outcome = "sent"
                                           THEN @ \cup {websocket} ELSE @,
                             !.failed = IF outcome = "sent"
                                        THEN @ ELSE @ \cup {websocket},
                             !.state = IF rest = {}
                                       THEN "done" ELSE "sending"]]

\* agent_ws.py:100-101: one turn of the loop, the send to one member of the
\* copy.  The call returns once the copy is used up.
broadcast_send(hs, job, websocket, outcome) ==
    [hs |-> send_to_websocket(hs, websocket, outcome),
     job |-> IF outcome = "pending"
             THEN [job EXCEPT !.awaiting = {websocket}]
             ELSE [job EXCEPT !.remaining = @ \ {websocket},
                              !.awaiting = {},
                              !.delivered = IF outcome = "sent"
                                            THEN @ \cup {websocket} ELSE @,
                              !.failed = IF outcome = "sent"
                                         THEN @ ELSE @ \cup {websocket},
                              !.state = IF job.remaining = {websocket}
                                        THEN "done" ELSE "sending"]]

\* Mutant: the lookup creates the entry of a session it does not find.
get_session_stats_setdefault(hs, session_id) ==
    LET connections == IF session_id \in DOMAIN hs.active_connections
                       THEN hs.active_connections[session_id] ELSE {}
    IN  [hs |-> [hs EXCEPT !.active_connections =
                                DictSet(@, session_id, connections)],
         val |-> [active_connections |-> Cardinality(connections),
                  connections |->
                      connections \cap DOMAIN hs.connection_metadata]]

\* agent_ws.py:202-222.  The answer for a session without an entry has the
\* count only (lines 204-205); otherwise the count is the size of the
\* session's set and one entry of 'connections' is built for every member
\* that has metadata (lines 210-217).  Nothing is assigned.
get_session_stats(hs, session_id) ==
    IF session_id \notin DOMAIN hs.active_connections
    THEN [hs |-> hs, val |-> [active_connections |-> 0]]
    ELSE LET connections == hs.active_connections[session_id]
         IN  [hs |-> hs,
              val |-> [active_connections |-> Cardinality(connections),
                       connections |->
                           connections \cap DOMAIN hs.connection_metadata]]

\* agent_ws.py:224-229.
get_all_sessions(hs) ==
    [hs |-> hs,
     val |-> [session_id \in DOMAIN hs.active_connections |->
                  Cardinality(hs.active_connections[session_id])]]

\* Mutant: the pong is sent without its timestamp.
Message_bare(type) ==
    CASE type = "connection" -> {"type", "status", "session_id", "timestamp"}
      [] type = "user_message" -> {"type", "content", "timestamp", "message_id"}
      [] type = "agent_message" -> {"type", "content", "timestamp", "message_id"}
      [] type = "error" -> {"type", "message", "timestamp"}
      [] type = "pong" -> {"type"}
      [] type = "session_ended" -> {"type", "message", "timestamp"}
      [] type = "session_restarted" ->
             {"type", "message", "vnc_port", "timestamp"}
      [] type = "chat_cleared" -> {"type", "message", "timestamp"}
      [] OTHER -> {"type", "data", "timestamp"}

\* The keys of the dict that is sent for an event of each type: connection
\* (agent_ws.py:48-53), user_message (129-134), agent_message (169-174),
\* error (142-146, 264-268, 275-279), pong (256-259), session_ended
\* (sessions.py:197-201), session_restarted (sessions.py:339-344),
\* chat_cleared (chat.py:206-210); every other type is the event_type of a
\* container event (agent_ws.py:193-197).
Message(type) ==
    CASE type = "connection" -> {"type", "status", "session_id", "timestamp"}
      [] type = "user_message" -> {"type", "content", "timestamp", "message_id"}
      [] type = "agent_message" -> {"type", "content", "timestamp", "message_id"}
      [] type = "error" -> {"type", "message", "timestamp"}
      [] type = "pong" -> {"type", "timestamp"}
      [] type = "session_ended" -> {"type", "message", "timestamp"}
      [] type = "session_restarted" ->
             {"type", "message", "vnc_port", "timestamp"}
      [] type = "chat_cleared" -> {"type", "message", "timestamp"}
      [] OTHER -> {"type", "data", "timestamp"}

TaskIds == ({"producer"} \X Producers) \cup ({"request"} \X Requests)
                \cup ({"conn"} \X Conns)

SetHub(hs) ==
    /\ active_connections' = hs.active_connections
    /\ connection_metadata' = hs.connection_metadata

\* broadcast_to_session up to its first await that can suspend: the copy is
\* taken and the first send is made in the same step.
StartBroadcastOf(task, session_id, type, content, message_id) ==
    LET job == [broadcast_begin(hs_now, session_id, type)
                    EXCEPT !.content = content, !.message_id = message_id]
    IN  IF job.state = "done"
        THEN /\ jobs' = [jobs EXCEPT ![task] = job]
             /\ UNCHANGED <<active_connections, connection_metadata>>
        ELSE \E websocket \in job.remaining :
             \E outcome \in SendOutcomes(conn[websocket]) :
                LET r == broadcast_send(hs_now, job, websocket, outcome)
                IN  jobs' = [jobs EXCEPT ![task] = r.job] /\ SetHub(r.hs)

\* A broadcast of an event that carries no content and no message id.
StartBroadcast(task, session_id, type) ==
    StartBroadcastOf(task, session_id, type, "", 0)

\* The next turn of the loop, after the previous send_text was awaited.
\* While a send_text is pending the loop is suspended in that await: the
\* only step is the return or the failure of that send.
ContinueBroadcast(task) ==
    /\ jobs[task].state = "sending"
    /\ \E websocket \in (IF jobs[task].awaiting = {}
                          THEN jobs[task].remaining ELSE jobs[task].awaiting) :
       \E outcome \in SendOutcomes(conn[websocket]) :
          /\ jobs[task].awaiting = {websocket} => outcome # "pending"
          /\ LET r == broadcast_send(hs_now, jobs[task], websocket, outcome)
             IN  jobs' = [jobs EXCEPT ![task] = r.job] /\ SetHub(r.hs)

----------------------------------------------------------------------------
(* websocket_endpoint (agent_ws.py:236-290), one coroutine per WebSocket.  *)

NewConn == [pc |-> "new", session_id |-> 0, client_state |-> "CONNECTING",
            peer |-> "open", content |-> ""]

\* Mutant: the reply to one connection goes to every observer of its session.
direct_send_all(hs, session_id, websocket, type, outcome) ==
    LET connections == IF session_id \in DOMAIN hs.active_connections
                       THEN hs.active_connections[session_id] \cup {websocket}
                       ELSE {websocket}
    IN  [hs |-> send_to_websocket(hs, websocket, outcome),
         job |-> [NoJob EXCEPT !.state = "done", !.session_id = session_id,
                    !.type = type, !.snapshot = connections,
                    !.delivered = IF outcome = "sent"
                                  THEN connections ELSE connections \ {websocket},
                    !.failed = IF outcome = "sent" THEN {} ELSE {websocket}]]

\* Mutant: after an error event is sent the connection is dropped from the
\* hub.
direct_send_drop(hs, session_id, websocket, type, outcome) ==
    [hs |-> IF type = "error" THEN disconnect(hs, websocket)
            ELSE send_to_websocket(hs, websocket, outcome),
     job |-> [NoJob EXCEPT !.state = "done", !.session_id = session_id,
                !.type = type, !.snapshot = {websocket},
                !.delivered = IF outcome = "sent" THEN {websocket} ELSE {},
                !.failed = IF outcome = "sent" THEN {} ELSE {websocket}]]

\* agent_ws.py:256-259, 264-268 and 46-51: await manager.send_to_websocket(
\* websocket, {...}), one event for one connection.  The record says what
\* was sent to whom.
direct_send(hs, session_id, websocket, type, outcome) ==
    [hs |-> send_to_websocket(hs, websocket, outcome),
     job |-> [NoJob EXCEPT !.state = "done", !.session_id = session_id,
                !.type = type, !.snapshot = {websocket},
                !.delivered = IF outcome = "sent" THEN {websocket} ELSE {},
                !.failed = IF outcome = "sent" THEN {} ELSE {websocket}]]

\* Mutant: the welcome event is sent before the connection is registered.
connect_unregistered(hs, websocket, session_id, outcome) ==
    direct_send(hs, session_id, websocket, "connection", outcome)

\* agent_ws.py:31-53: connect after accept(): the connection is registered
\* and the connection/connected event is sent to it.
connect(hs, websocket, session_id, outcome) ==
    direct_send(register(hs, websocket, session_id), session_id, websocket,
                "connection", outcome)

SetConnJob(websocket, r) ==
    /\ SetHub(r.hs)
    /\ jobs' = [jobs EXCEPT ![<<"conn", websocket>>] = r.job]

\* agent_ws.py:242 and 29: the endpoint starts and awaits websocket.accept().
\* WebSocket objects are interchangeable, so they are used in order.
WsAccept(websocket, session_id) ==
    /\ conn[websocket].pc = "new"
    /\ \A w \in Conns : w < websocket => conn[w].pc # "new"
    /\ conn' = [conn EXCEPT ![websocket] =
                  [pc |-> "accepted", session_id |-> session_id,
                   client_state |-> "CONNECTED", peer |-> "open",
                   content |-> ""]]
    /\ UNCHANGED <<active_connections, connection_metadata, producer, jobs>>
    /\ UNCHANGED <<alloc_vars, hist_vars, db_vars, req>>
    /\ UNCHANGED cu_vars

\* agent_ws.py:31-53: the rest of connect.
WsRegister(websocket) ==
    /\ conn[websocket].pc = "accepted"
    /\ \E outcome \in SendOutcomes(conn[websocket]) :
          SetConnJob(websocket, connect(hs_now, websocket,
                                        conn[websocket].session_id, outcome))
    /\ conn' = [conn EXCEPT ![websocket].pc = "connected"]
    /\ UNCHANGED producer
    /\ UNCHANGED <<alloc_vars, hist_vars, db_vars, req>>
    /\ UNCHANGED cu_vars

\* agent_ws.py:244-247: connect or the handling of a payload has returned;
\* the endpoint awaits receive_text again.
WsLoop(websocket) ==
    /\ conn[websocket].pc \in {"connected", "handled"}
    /\ conn' = [conn EXCEPT ![websocket].pc = "receive",
                            ![websocket].content = ""]
    /\ jobs' = [jobs EXCEPT ![<<"conn", websocket>>] = NoJob]
    /\ UNCHANGED <<active_connections, connection_metadata, producer>>
    /\ UNCHANGED <<alloc_vars, hist_vars, db_vars, req>>
    /\ UNCHANGED cu_vars

\* A connected client stops reading what it is sent, and may start again.
PeerStall(websocket) ==
    /\ conn[websocket].pc = "receive"
    /\ conn[websocket].peer = "open"
    /\ conn' = [conn EXCEPT ![websocket].peer = "stalled"]
    /\ UNCHANGED <<active_connections, connection_metadata, producer, jobs>>
    /\ UNCHANGED <<alloc_vars, hist_vars, db_vars, req>>
    /\ UNCHANGED cu_vars

PeerResume(websocket) ==
    /\ conn[websocket].peer = "stalled"
    /\ conn' = [conn EXCEPT ![websocket].peer = "open"]
    /\ UNCHANGED <<active_connections, connection_metadata, producer, jobs>>
    /\ UNCHANGED <<alloc_vars, hist_vars, db_vars, req>>
    /\ UNCHANGED cu_vars

\* The client goes away (closes the tab, loses the network).
PeerClose(websocket) ==
    /\ conn[websocket].pc \notin {"new", "closed"}
    /\ conn[websocket].peer \in {"open", "stalled"}
    /\ conn' = [conn EXCEPT ![websocket].peer = "gone"]
    /\ UNCHANGED <<active_connections, connection_metadata, producer, jobs>>
    /\ UNCHANGED <<alloc_vars, hist_vars, db_vars, req>>
    /\ UNCHANGED cu_vars

\* agent_ws.py:247, 269-271, 289-290: receive_text raises WebSocketDisconnect
\* (the framework sets client_state), the loop breaks and finally disconnects.
WsReceiveDisconnect(websocket) ==
    /\ conn[websocket].pc = "receive"
    /\ conn[websocket].peer = "gone"
    /\ conn' = [conn EXCEPT ![websocket].pc = "closed",
                            ![websocket].client_state = "DISCONNECTED"]
    /\ SetHub(disconnect(hs_now, websocket))
    /\ UNCHANGED <<producer, jobs>>
    /\ UNCHANGED <<alloc_vars, hist_vars, db_vars, req>>
    /\ UNCHANGED cu_vars

----------------------------------------------------------------------------
(* The payloads a client sends, and what the endpoint does with them       *)
(* (agent_ws.py:244-283 and handle_user_message, 103-174).                 *)

\* The texts receive_text can return: one that json.loads rejects, and JSON
\* objects with or without a type and a content.
Payloads ==
    {[json |-> FALSE, type |-> "absent", content |-> "absent"]} \cup
    [json : {TRUE}, type : {"message", "absent", "ping", "other"},
     content : {"hi", "absent"}]

\* Mutant: every type but ping is taken for a message.
MessageType_lenient(payload) ==
    IF payload.type = "ping" THEN "ping" ELSE "message"

\* agent_ws.py:251: message.get('type', 'message').
MessageType(payload) ==
    IF payload.type = "absent" THEN "message" ELSE payload.type

\* Mutant: the content of the payload is dropped.
MessageContent_blank(payload) ==
    IF payload.content = "absent" THEN "" ELSE ""

\* agent_ws.py:114 and 129: message_data.get('content', '').
MessageContent(payload) ==
    IF payload.content = "absent" THEN "" ELSE payload.content

\* agent_ws.py:154: the text of the simulated answer embeds the message.
ResponseContent(user_message) ==
    IF user_message = "" THEN "received ''" ELSE "received 'hi'"

\* agent_ws.py:247-268: receive_text returns a text the client sent (it may
\* have gone since).  A ping and a text that is not JSON are answered to the
\* sender; a message enters handle_user_message, which awaits db.get; any
\* other type is logged and the loop goes on.
WsReceiveText(websocket, payload) ==
    /\ conn[websocket].pc = "receive"
    /\ IF ~payload.json \/ MessageType(payload) = "ping"
       THEN /\ \E outcome \in SendOutcomes(conn[websocket]) :
                  SetConnJob(websocket,
                      direct_send(hs_now, conn[websocket].session_id, websocket,
                                  IF payload.json THEN "pong" ELSE "error",
                                  outcome))
            /\ conn' = [conn EXCEPT ![websocket].pc = "handled"]
       ELSE IF MessageType(payload) = "message"
       THEN /\ conn' = [conn EXCEPT ![websocket].pc = "persist",
                                    ![websocket].content = MessageContent(payload)]
            /\ UNCHANGED <<active_connections, connection_metadata, jobs>>
       ELSE /\ conn' = [conn EXCEPT ![websocket].pc = "handled"]
            /\ UNCHANGED <<active_connections, connection_metadata, jobs>>
    /\ UNCHANGED producer
    /\ UNCHANGED <<alloc_vars, hist_vars, db_vars, req>>
    /\ UNCHANGED cu_vars

\* Mutant: the broadcast is left to a task of its own and the endpoint goes
\* back to receiving at once.
AfterBroadcast_detached(websocket, job, sending, returned) ==
    conn' = [conn EXCEPT ![websocket].pc =
                IF job.state = "done" THEN returned ELSE "receive"]

\* Where handle_user_message is after a turn of one of its broadcasts.
AfterBroadcast(websocket, job, sending, returned) ==
    conn' = [conn EXCEPT ![websocket].pc =
                IF job.state = "done" THEN returned ELSE sending]

\* Mutant: the user_message event is broadcast before the row is committed.
WsPersisted_unsaved(websocket) ==
    /\ conn[websocket].pc = "persist"
    /\ ChatInsertAllowed(db_sessions, conn[websocket].session_id)
    /\ chat_history < MaxRows
    /\ chat_history' = chat_history
    /\ StartBroadcastOf(<<"conn", websocket>>, conn[websocket].session_id,
                        "user_message", conn[websocket].content,
                        chat_history + 1)
    /\ AfterBroadcast(websocket, jobs'[<<"conn", websocket>>],
                      "broadcast", "sleep")
    /\ UNCHANGED <<producer, db_sessions, req>>
    /\ UNCHANGED <<alloc_vars, hist_vars>>
    /\ UNCHANGED cu_vars

\* agent_ws.py:107-131: the session row is there, the ChatHistory row is
\* committed, and the user_message event is broadcast with the id of the
\* row (here its number in the table).
WsPersisted(websocket) ==
    /\ conn[websocket].pc = "persist"
    /\ ChatInsertAllowed(db_sessions, conn[websocket].session_id)
    /\ chat_history < MaxRows
    /\ chat_history' = chat_history + 1
    /\ StartBroadcastOf(<<"conn", websocket>>, conn[websocket].session_id,
                        "user_message", conn[websocket].content,
                        chat_history + 1)
    /\ AfterBroadcast(websocket, jobs'[<<"conn", websocket>>],
                      "broadcast", "sleep")
    /\ UNCHANGED <<producer, db_sessions, req>>
    /\ UNCHANGED <<alloc_vars, hist_vars>>
    /\ UNCHANGED cu_vars

\* agent_ws.py:110-111, 124 and 139-146: there is no session row, or the
\* database fails, here or in _simulate_agent_response; except Exception
\* broadcasts an error event to the session.
WsPersistFailed(websocket) ==
    /\ conn[websocket].pc \in {"persist", "persist_response"}
    /\ StartBroadcast(<<"conn", websocket>>, conn[websocket].session_id, "error")
    /\ AfterBroadcast(websocket, jobs'[<<"conn", websocket>>],
                      "broadcast_error", "handled")
    /\ UNCHANGED <<producer, db_sessions, chat_history, req>>
    /\ UNCHANGED <<alloc_vars, hist_vars>>
    /\ UNCHANGED cu_vars

\* agent_ws.py:100-101 inside handle_user_message: the next send of the
\* broadcast in progress.
WsSend(websocket) ==
    /\ conn[websocket].pc \in {"broadcast", "broadcast_response",
                               "broadcast_error"}
    /\ ContinueBroadcast(<<"conn", websocket>>)
    /\ AfterBroadcast(websocket, jobs'[<<"conn", websocket>>],
                      conn[websocket].pc,
                      IF conn[websocket].pc = "broadcast"
                      THEN "sleep" ELSE "handled")
    /\ UNCHANGED <<producer, db_sessions, chat_history, req>>
    /\ UNCHANGED <<alloc_vars, hist_vars>>
    /\ UNCHANGED cu_vars

\* agent_ws.py:136 and 151: _simulate_agent_response, asyncio.sleep(1) is
\* over and the commit of the answer is awaited.
WsSleepOver(websocket) ==
    /\ conn[websocket].pc = "sleep"
    /\ conn' = [conn EXCEPT ![websocket].pc = "persist_response"]
    /\ jobs' = [jobs EXCEPT ![<<"conn", websocket>>] = NoJob]
    /\ UNCHANGED <<active_connections, connection_metadata, producer>>
    /\ UNCHANGED <<alloc_vars, hist_vars, db_vars, req>>
    /\ UNCHANGED cu_vars

\* agent_ws.py:157-174: the answer is committed and broadcast.
WsResponsePersisted(websocket) ==
    /\ conn[websocket].pc = "persist_response"
    /\ ChatInsertAllowed(db_sessions, conn[websocket].session_id)
    /\ chat_history < MaxRows
    /\ chat_history' = chat_history + 1
    /\ StartBroadcastOf(<<"conn", websocket>>, conn[websocket].session_id,
                        "agent_message",
                        ResponseContent(conn[websocket].content),
                        chat_history + 1)
    /\ AfterBroadcast(websocket, jobs'[<<"conn", websocket>>],
                      "broadcast_response", "handled")
    /\ UNCHANGED <<producer, db_sessions, req>>
    /\ UNCHANGED <<alloc_vars, hist_vars>>
    /\ UNCHANGED cu_vars

----------------------------------------------------------------------------
(* handle_container_event (agent_ws.py:176-200), called by the producer of *)
(* a session's events.                                                     *)

\* The event kinds the model's producers emit: one persisted, one not.
EventTypes == {"screenshot", "status"}

DurableTypes == {"screenshot", "tool_result"}

IdleProducer == [pc |-> "idle", session_id |-> 0, event_type |-> "none"]

\* agent_ws.py:178-197 up to the first await: db.commit() for a durable kind,
\* the first send of the broadcast otherwise.
ProducerStart(p, session_id, event_type) ==
    /\ producer[p].pc = "idle"
    /\ IF event_type \in DurableTypes
       THEN /\ chat_history
                 + Cardinality({q \in Producers : producer[q].pc = "persist"})
               < MaxRows
            /\ producer' = [producer EXCEPT ![p] =
                  [pc |-> "persist", session_id |-> session_id,
                   event_type |-> event_type]]
            /\ UNCHANGED <<active_connections, connection_metadata, jobs>>
       ELSE /\ StartBroadcast(<<"producer", p>>, session_id, event_type)
            /\ producer' = [producer EXCEPT ![p] =
                  [pc |-> "broadcast", session_id |-> session_id,
                   event_type |-> event_type]]
    /\ UNCHANGED conn
    /\ UNCHANGED <<alloc_vars, hist_vars, db_vars, req>>
    /\ UNCHANGED cu_vars

\* agent_ws.py:181-197: the row is committed, the broadcast starts.
ProducerPersisted(p) ==
    /\ producer[p].pc = "persist"
    /\ ChatInsertAllowed(db_sessions, producer[p].session_id)
    /\ chat_history' = chat_history + 1
    /\ StartBroadcast(<<"producer", p>>, producer[p].session_id,
                      producer[p].event_type)
    /\ producer' = [producer EXCEPT ![p].pc = "broadcast"]
    /\ UNCHANGED <<conn, db_sessions, req>>
    /\ UNCHANGED <<alloc_vars, hist_vars>>
    /\ UNCHANGED cu_vars

\* Mutant: the event is broadcast although its row was not committed.
ProducerPersistFailed_sends(p) ==
    /\ producer[p].pc = "persist"
    /\ StartBroadcast(<<"producer", p>>, producer[p].session_id,
                      producer[p].event_type)
    /\ producer' = [producer EXCEPT ![p].pc = "broadcast"]
    /\ UNCHANGED conn
    /\ UNCHANGED <<alloc_vars, hist_vars, db_vars, req>>
    /\ UNCHANGED cu_vars

\* agent_ws.py:199-200: the commit raised; the error is logged, nothing is sent.
ProducerPersistFailed(p) ==
    /\ producer[p].pc = "persist"
    /\ producer' = [producer EXCEPT ![p] = IdleProducer]
    /\ UNCHANGED <<active_connections, connection_metadata, conn, jobs>>
    /\ UNCHANGED <<alloc_vars, hist_vars, db_vars, req>>
    /\ UNCHANGED cu_vars

\* agent_ws.py:100-101 inside handle_container_event.
ProducerSend(p) ==
    /\ producer[p].pc = "broadcast"
    /\ ContinueBroadcast(<<"producer", p>>)
    /\ UNCHANGED <<conn, producer>>
    /\ UNCHANGED <<alloc_vars, hist_vars, db_vars, req>>
    /\ UNCHANGED cu_vars

\* broadcast_to_session has returned and handle_container_event returns.
ProducerReturn(p) ==
    /\ producer[p].pc = "broadcast"
    /\ jobs[<<"producer", p>>].state = "done"
    /\ producer' = [producer EXCEPT ![p] = IdleProducer]
    /\ jobs' = [jobs EXCEPT ![<<"producer", p>>] = NoJob]
    /\ UNCHANGED <<active_connections, connection_metadata, conn>>
    /\ UNCHANGED <<alloc_vars, hist_vars, db_vars, req>>
    /\ UNCHANGED cu_vars

----------------------------------------------------------------------------
(* The session routes (app/routers/sessions.py).  A request is a coroutine *)
(* on the event loop; its steps are the stretches between awaits on the    *)
(* database and on the sockets.  db.get only tests that the row exists and *)
(* rows are never deleted, so the read is taken with the step after it.    *)

IdleReq == [kind |-> "none", pc |-> "idle", session_id |-> 0,
            container |-> <<>>, code |-> 0, detail |-> "none",
            old_sessions |-> {}, message_id |-> 0]

SetAlloc(cs) ==
    /\ available_agents' = cs.available_agents
    /\ session_assignments' = cs.session_assignments

Response(q, code, detail) ==
    [q EXCEPT !.pc = "done", !.code = code, !.detail = detail]

ExcDetail(exc) ==
    IF exc = "Exception" THEN "No available agent containers" ELSE exc

UsedSessionIds ==
    (DOMAIN db_sessions) \cup (DOMAIN session_assignments)
        \cup {req[q].session_id : q \in Requests}
        \cup {conn[w].session_id : w \in Conns}

\* sessions.py:34: uuid4 gives an id nothing has used; ids are
\* interchangeable, so the least unused one is taken.
FreshSessionId(s) ==
    /\ s \in SessionIds \ UsedSessionIds
    /\ \A t \in SessionIds : t < s => t \in UsedSessionIds

\* The ids a client can name: those of the rows, and one that has no row.
KnownOrFresh(s) == s \in DOMAIN db_sessions \/ FreshSessionId(s)

\* Request slots are interchangeable: a request takes the lowest free one.
FreeSlot(r) ==
    /\ req[r].pc = "idle"
    /\ \A q \in Requests : q < r => req[q].pc # "idle"

\* sessions.py:34-75 and 90-97: up to the await of db.commit(), or the
\* failure of create_session_container and the cleanup in the except block.
CreateStart(r) ==
    /\ FreeSlot(r)
    /\ \E s \in SessionIds :
        /\ FreshSessionId(s)
        /\ \E out \in create_session_container(cs_now, s) :
            IF out.exc = "none"
            THEN /\ SetAlloc(out.cs)
                 /\ req' = [req EXCEPT ![r] =
                        [IdleReq EXCEPT !.kind = "create", !.pc = "commit",
                                        !.session_id = s, !.container = out.val]]
            ELSE /\ \E undo \in stop_session_container(out.cs, s) :
                        SetAlloc(undo.cs)
                 /\ req' = [req EXCEPT ![r] =
                        Response([IdleReq EXCEPT !.kind = "create",
                                                 !.session_id = s],
                                 500, ExcDetail(out.exc))]
    /\ UNCHANGED <<db_sessions, chat_history>>
    /\ UNCHANGED <<hub_vars, hist_vars>>
    /\ UNCHANGED cu_vars

\* sessions.py:75-88: the INSERT is committed and the response is built.
CreateCommit(r) ==
    /\ req[r].kind = "create" /\ req[r].pc = "commit"
    /\ ~ContainerTaken(db_sessions, req[r].session_id, req[r].container[1])
    /\ db_sessions' = DictSet(db_sessions, req[r].session_id,
                              SessionRow("active", req[r].container[1]))
    /\ req' = [req EXCEPT ![r] = Response(@, 200, "active")]
    /\ UNCHANGED <<alloc_vars, chat_history>>
    /\ UNCHANGED <<hub_vars, hist_vars>>
    /\ UNCHANGED cu_vars

\* sessions.py:90-97: db.commit() raised (IntegrityError on the unique
\* container_id, or the database failing); the agent is released.
CreateDbFail(r) ==
    /\ req[r].kind = "create" /\ req[r].pc = "commit"
    /\ \E undo \in stop_session_container(cs_now, req[r].session_id) :
            SetAlloc(undo.cs)
    /\ req' = [req EXCEPT ![r] = Response(@, 500, "database")]
    /\ UNCHANGED <<db_sessions, chat_history>>
    /\ UNCHANGED <<hub_vars, hist_vars>>
    /\ UNCHANGED cu_vars

\* Mutant: end_session leaves the agent bound.
EndStart_bound(r, s) ==
    /\ FreeSlot(r)
    /\ KnownOrFresh(s)
    /\ IF s \in DOMAIN db_sessions
       THEN /\ UNCHANGED alloc_vars
            /\ req' = [req EXCEPT ![r] =
                        [IdleReq EXCEPT !.kind = "end", !.pc = "commit",
                                        !.session_id = s]]
       ELSE /\ req' = [req EXCEPT ![r] =
                        Response([IdleReq EXCEPT !.kind = "end",
                                                 !.session_id = s],
                                 404, "Session not found")]
            /\ UNCHANGED alloc_vars
    /\ UNCHANGED <<db_sessions, chat_history>>
    /\ UNCHANGED <<hub_vars, hist_vars>>
    /\ UNCHANGED cu_vars

\* sessions.py:184-194: 404, or the agent is released and the UPDATE awaited.
EndStart(r, s) ==
    /\ FreeSlot(r)
    /\ KnownOrFresh(s)
    /\ IF s \in DOMAIN db_sessions
       THEN \E out \in stop_session_container(cs_now, s) :
                /\ SetAlloc(out.cs)
                /\ req' = [req EXCEPT ![r] =
                        [IdleReq EXCEPT !.kind = "end", !.pc = "commit",
                                        !.session_id = s]]
       ELSE /\ req' = [req EXCEPT ![r] =
                        Response([IdleReq EXCEPT !.kind = "end",
                                                 !.session_id = s],
                                 404, "Session not found")]
            /\ UNCHANGED alloc_vars
    /\ UNCHANGED <<db_sessions, chat_history>>
    /\ UNCHANGED <<hub_vars, hist_vars>>
    /\ UNCHANGED cu_vars

\* sessions.py:192-194: status = "ended" is committed.
EndCommit(r) ==
    /\ req[r].kind = "end" /\ req[r].pc = "commit"
    /\ db_sessions' = [db_sessions EXCEPT ![req[r].session_id].status = "ended"]
    /\ req' = [req EXCEPT ![r].pc = "notify"]
    /\ UNCHANGED <<alloc_vars, chat_history>>
    /\ UNCHANGED <<hub_vars, hist_vars>>
    /\ UNCHANGED cu_vars

\* Mutant: restart without releasing first.
restart_session_calls_nostop(cs, session_id) ==
    create_session_container(cs, session_id)

\* Mutant: the route is suspended between the release and the acquire, and
\* the requests that run meanwhile take every idle agent.
restart_session_calls_suspended(cs, session_id) ==
    UNION {create_session_container(
                [released.cs EXCEPT !.available_agents = {}], session_id) :
                released \in stop_session_container(cs, session_id)}

\* sessions.py:316-329: stop_session_container, then create_session_container,
\* with no suspension between the two.
restart_session_calls(cs, session_id) ==
    UNION {create_session_container(released.cs, session_id) :
                released \in stop_session_container(cs, session_id)}

\* sessions.py:311-336 and 355-356: 404, or release and acquire; when the
\* acquire raises the request fails with 500, else the UPDATE is awaited.
RestartStart(r, s) ==
    /\ FreeSlot(r)
    /\ KnownOrFresh(s)
    /\ IF s \in DOMAIN db_sessions
       THEN \E out \in restart_session_calls(cs_now, s) :
                /\ SetAlloc(out.cs)
                /\ req' = [req EXCEPT ![r] =
                     IF out.exc = "none"
                     THEN [IdleReq EXCEPT !.kind = "restart", !.pc = "commit",
                                          !.session_id = s,
                                          !.container = out.val]
                     ELSE Response([IdleReq EXCEPT !.kind = "restart",
                                                   !.session_id = s],
                                   500, ExcDetail(out.exc))]
       ELSE /\ req' = [req EXCEPT ![r] =
                        Response([IdleReq EXCEPT !.kind = "restart",
                                                 !.session_id = s],
                                 404, "Session not found")]
            /\ UNCHANGED alloc_vars
    /\ UNCHANGED <<db_sessions, chat_history>>
    /\ UNCHANGED <<hub_vars, hist_vars>>
    /\ UNCHANGED cu_vars

\* sessions.py:332-336: container_id, vnc_port, status = "active" committed.
RestartCommit(r) ==
    /\ req[r].kind = "restart" /\ req[r].pc = "commit"
    /\ ~ContainerTaken(db_sessions, req[r].session_id, req[r].container[1])
    /\ db_sessions' = [db_sessions EXCEPT ![req[r].session_id] =
                            SessionRow("active", req[r].container[1])]
    /\ req' = [req EXCEPT ![r].pc = "notify"]
    /\ UNCHANGED <<alloc_vars, chat_history>>
    /\ UNCHANGED <<hub_vars, hist_vars>>
    /\ UNCHANGED cu_vars

\* sessions.py:211-212 and 355-356: db.commit() raised in end_session or
\* restart_session; nothing is undone.
UpdateDbFail(r) ==
    /\ req[r].kind \in {"end", "restart"} /\ req[r].pc = "commit"
    /\ req' = [req EXCEPT ![r] = Response(@, 500, "database")]
    /\ UNCHANGED <<alloc_vars, db_sessions, chat_history>>
    /\ UNCHANGED <<hub_vars, hist_vars>>
    /\ UNCHANGED cu_vars

LifecycleEvent(kind) ==
    IF kind = "end" THEN "session_ended" ELSE "session_restarted"

\* The route after a turn of its broadcast: it goes on sending, or the
\* broadcast has returned and the response is built.
AfterSend(r, job) ==
    req' = [req EXCEPT ![r] = IF job.state = "done"
                              THEN Response(@, 200, "ok")
                              ELSE [@ EXCEPT !.pc = "broadcast"]]

\* sessions.py:197-207 and 339-351: the commit returned; broadcast_to_session.
Notify(r) ==
    /\ req[r].pc = "notify"
    /\ StartBroadcast(<<"request", r>>, req[r].session_id,
                      LifecycleEvent(req[r].kind))
    /\ AfterSend(r, jobs'[<<"request", r>>])
    /\ UNCHANGED <<alloc_vars, db_sessions, chat_history, conn, producer>>
    /\ UNCHANGED hist_vars
    /\ UNCHANGED cu_vars

\* agent_ws.py:100-101 inside the route's broadcast.
RequestSend(r) ==
    /\ req[r].pc = "broadcast"
    /\ ContinueBroadcast(<<"request", r>>)
    /\ AfterSend(r, jobs'[<<"request", r>>])
    /\ UNCHANGED <<alloc_vars, db_sessions, chat_history, conn, producer>>
    /\ UNCHANGED hist_vars
    /\ UNCHANGED cu_vars

\* The response has been sent; the request is over.
RequestReturn(r) ==
    /\ req[r].pc = "done"
    /\ req' = [req EXCEPT ![r] = IdleReq]
    /\ jobs' = [jobs EXCEPT ![<<"request", r>>] = NoJob]
    /\ UNCHANGED <<alloc_vars, db_sessions, chat_history>>
    /\ UNCHANGED <<active_connections, connection_metadata, conn, producer>>
    /\ UNCHANGED hist_vars
    /\ UNCHANGED cu_vars

----------------------------------------------------------------------------
(* cleanup_sessions (sessions.py:359-405).  Which active rows are older    *)
(* than the cutoff depends on the clock and on the hours the caller asks   *)
(* for, so the SELECT may return any set of active rows.                   *)

ActiveRows(db) == {s \in DOMAIN db : db[s].status = "active"}

\* Mutant: the loop releases every binding, not only those of the rows
\* that were selected.
reclaim_all(cs, old_sessions) ==
    [available_agents |-> cs.available_agents \cup
            {cs.session_assignments[s] : s \in DOMAIN cs.session_assignments},
     session_assignments |-> EmptyDict]

\* sessions.py:380-391: stop_session_container for every selected row, one
\* after the other.  A stop of one session leaves the bindings of the others
\* alone, so the order of the rows does not matter.
RECURSIVE reclaim(_, _)
reclaim(cs, old_sessions) ==
    IF old_sessions = {}
    THEN cs
    ELSE LET session_id == CHOOSE s \in old_sessions : TRUE
             out == CHOOSE o \in stop_session_container(cs, session_id) : TRUE
         IN  reclaim(out.cs, old_sessions \ {session_id})

\* sessions.py:366-377: the SELECT of the active rows older than the cutoff
\* is awaited.
CleanupSelect(r) ==
    /\ FreeSlot(r)
    /\ \E old_sessions \in SUBSET ActiveRows(db_sessions) :
          req' = [req EXCEPT ![r] =
                    [IdleReq EXCEPT !.kind = "cleanup", !.pc = "reclaim",
                                    !.old_sessions = old_sessions]]
    /\ UNCHANGED <<alloc_vars, db_sessions, chat_history>>
    /\ UNCHANGED <<hub_vars, hist_vars>>
    /\ UNCHANGED cu_vars

\* sessions.py:379-393: the loop over the selected rows, up to the await of
\* db.commit().
CleanupReclaim(r) ==
    /\ req[r].kind = "cleanup" /\ req[r].pc = "reclaim"
    /\ SetAlloc(reclaim(cs_now, req[r].old_sessions))
    /\ req' = [req EXCEPT ![r].pc = "commit"]
    /\ UNCHANGED <<db_sessions, chat_history>>
    /\ UNCHANGED <<hub_vars, hist_vars>>
    /\ UNCHANGED cu_vars

\* sessions.py:393-402: status = "ended" is committed for the selected rows.
\* cleanup_orphaned_containers reads self.client, which is None, inside its
\* own try block and returns 0 (container_service.py:186-210).
CleanupCommit(r) ==
    /\ req[r].kind = "cleanup" /\ req[r].pc = "commit"
    /\ db_sessions' = [s \in DOMAIN db_sessions |->
                          IF s \in req[r].old_sessions
                          THEN [db_sessions[s] EXCEPT !.status = "ended"]
                          ELSE db_sessions[s]]
    /\ req' = [req EXCEPT ![r] = Response(@, 200, "Cleanup completed")]
    /\ UNCHANGED <<alloc_vars, chat_history>>
    /\ UNCHANGED <<hub_vars, hist_vars>>
    /\ UNCHANGED cu_vars

\* sessions.py:404-405: db.commit() raised; nothing is undone.
CleanupDbFail(r) ==
    /\ req[r].kind = "cleanup" /\ req[r].pc = "commit"
    /\ req' = [req EXCEPT ![r] = Response(@, 500, "database")]
    /\ UNCHANGED <<alloc_vars, db_sessions, chat_history>>
    /\ UNCHANGED <<hub_vars, hist_vars>>
    /\ UNCHANGED cu_vars

----------------------------------------------------------------------------
(* send_message (app/routers/chat.py:23-70): the REST way to submit a user *)
(* message.  It saves the message, then awaits handle_user_message         *)
(* (agent_ws.py:103-146), which saves and broadcasts it and then runs      *)
(* _simulate_agent_response (148-174).                                     *)

\* The rows the chat table may hold when messages come in over REST: one
\* submission writes three.
MaxRestRows == 3

\* The text of the messages sent over REST.
RestContent == "hello"

\* chat.py:32-50: 404 without a row, 400 when the row is not active, else
\* the ChatHistory row is added and db.commit() awaited.
SendStart(r, s) ==
    /\ FreeSlot(r)
    /\ KnownOrFresh(s)
    /\ req' = [req EXCEPT ![r] =
            IF s \notin DOMAIN db_sessions
            THEN Response([IdleReq EXCEPT !.kind = "message", !.session_id = s],
                          404, "Session not found")
            ELSE IF db_sessions[s].status # "active"
            THEN Response([IdleReq EXCEPT !.kind = "message", !.session_id = s],
                          400, "Session is not active")
            ELSE [IdleReq EXCEPT !.kind = "message", !.pc = "commit",
                                 !.session_id = s]]
    /\ UNCHANGED <<alloc_vars, hist_vars, hub_vars, db_vars>>
    /\ UNCHANGED cu_vars

\* chat.py:50-58: the row is committed and refreshed; its id is kept for the
\* response.  handle_user_message is entered and awaits db.get.
SendCommit(r) ==
    /\ req[r].kind = "message" /\ req[r].pc = "commit"
    /\ chat_history < MaxRestRows
    /\ chat_history' = chat_history + 1
    /\ req' = [req EXCEPT ![r].pc = "persist",
                          ![r].message_id = chat_history + 1]
    /\ UNCHANGED <<alloc_vars, hist_vars, hub_vars, db_sessions>>
    /\ UNCHANGED cu_vars

\* chat.py:67-70: db.commit() raised.
SendDbFail(r) ==
    /\ req[r].kind = "message" /\ req[r].pc = "commit"
    /\ req' = [req EXCEPT ![r] = Response(@, 500, "database")]
    /\ UNCHANGED <<alloc_vars, hist_vars, hub_vars, db_vars>>
    /\ UNCHANGED cu_vars

\* Where send_message is after a turn of a broadcast of handle_user_message:
\* still sending, or at the next stage; after the last stage
\* handle_user_message returns and the response is built (chat.py:60-64).
AfterRestSend(r, job, sending, returned) ==
    req' = [req EXCEPT ![r] =
                IF job.state # "done" THEN [@ EXCEPT !.pc = sending]
                ELSE IF returned = "done" THEN Response(@, 200, "sent")
                ELSE [@ EXCEPT !.pc = returned]]

\* agent_ws.py:107-134, called from chat.py:54: a ChatHistory row of its own
\* is committed and the user_message event carries the id of that row.
SendPersisted(r) ==
    /\ req[r].kind = "message" /\ req[r].pc = "persist"
    /\ ChatInsertAllowed(db_sessions, req[r].session_id)
    /\ chat_history < MaxRestRows
    /\ chat_history' = chat_history + 1
    /\ StartBroadcastOf(<<"request", r>>, req[r].session_id, "user_message",
                        RestContent, chat_history + 1)
    /\ AfterRestSend(r, jobs'[<<"request", r>>], "broadcast", "sleep")
    /\ UNCHANGED <<conn, producer, db_sessions>>
    /\ UNCHANGED <<alloc_vars, hist_vars>>
    /\ UNCHANGED cu_vars

\* agent_ws.py:139-146: the database fails in handle_user_message or in
\* _simulate_agent_response; an error event is broadcast and
\* handle_user_message returns normally.
SendPersistFailed(r) ==
    /\ req[r].kind = "message"
    /\ req[r].pc \in {"persist", "persist_response"}
    /\ StartBroadcast(<<"request", r>>, req[r].session_id, "error")
    /\ AfterRestSend(r, jobs'[<<"request", r>>], "broadcast_error", "done")
    /\ UNCHANGED <<conn, producer, db_vars>>
    /\ UNCHANGED <<alloc_vars, hist_vars>>
    /\ UNCHANGED cu_vars

\* agent_ws.py:100-101: the next send of the broadcast in progress.
SendBroadcast(r) ==
    /\ req[r].kind = "message"
    /\ req[r].pc \in {"broadcast", "broadcast_response", "broadcast_error"}
    /\ ContinueBroadcast(<<"request", r>>)
    /\ AfterRestSend(r, jobs'[<<"request", r>>], req[r].pc,
                     IF req[r].pc = "broadcast" THEN "sleep" ELSE "done")
    /\ UNCHANGED <<conn, producer, db_vars>>
    /\ UNCHANGED <<alloc_vars, hist_vars>>
    /\ UNCHANGED cu_vars

\* agent_ws.py:136 and 151: asyncio.sleep(1) is over.
SendSleepOver(r) ==
    /\ req[r].kind = "message" /\ req[r].pc = "sleep"
    /\ req' = [req EXCEPT ![r].pc = "persist_response"]
    /\ jobs' = [jobs EXCEPT ![<<"request", r>>] = NoJob]
    /\ UNCHANGED <<active_connections, connection_metadata, conn, producer>>
    /\ UNCHANGED <<alloc_vars, hist_vars, db_vars>>
    /\ UNCHANGED cu_vars

\* agent_ws.py:157-174: the answer is committed and broadcast.
SendResponsePersisted(r) ==
    /\ req[r].kind = "message" /\ req[r].pc = "persist_response"
    /\ ChatInsertAllowed(db_sessions, req[r].session_id)
    /\ chat_history < MaxRestRows
    /\ chat_history' = chat_history + 1
    /\ StartBroadcastOf(<<"request", r>>, req[r].session_id, "agent_message",
                        ResponseContent(RestContent), chat_history + 1)
    /\ AfterRestSend(r, jobs'[<<"request", r>>], "broadcast_response", "done")
    /\ UNCHANGED <<conn, producer, db_sessions>>
    /\ UNCHANGED <<alloc_vars, hist_vars>>
    /\ UNCHANGED cu_vars

----------------------------------------------------------------------------
(* The single-container backend (claude-computer-use/backend/app.py).  It  *)
(* is a program of its own: its sessions table lives in its own SQLite     *)
(* file and every session gets a Docker container of its own, started by   *)
(* create_session with three published host ports.  create_session awaits  *)
(* the SELECT, then runs without suspending up to the COMMIT: the port     *)
(* search, the synchronous containers.run and db.add are one step.         *)

\* Number of concurrent create_session calls.
NumHandlers == 3

Handlers == 1..NumHandlers

\* app.py:88, 92, 96: where the search for each host port starts.
FirstToolPort == 8001

FirstVncPort == 5900

FirstNovncPort == 6080

scalable_vars == <<alloc_vars, hist_vars, hub_vars, db_vars, req>>

NewHandler ==
    [pc |-> "new", all_sessions |-> <<>>, container_id |-> 0,
     tool_port |-> 0, vnc_port |-> 0, novnc_port |-> 0,
     status_code |-> 0, session_id |-> 0]

\* app.py:87, 91, 95: the column's values over the rows read, falsy ones
\* left out.
used_ports(all_sessions, column) ==
    {all_sessions[i][column] : i \in DOMAIN all_sessions} \ {0}

\* app.py:88-90, 92-94, 96-98: the while loop.
RECURSIVE free_port(_, _)
free_port(port, used) ==
    IF port \in used THEN free_port(port + 1, used) ELSE port

\* The host ports published by the containers that are running.
published(host) ==
    UNION {host[c].ports :
              c \in {d \in DOMAIN host : host[d].status = "running"}}

\* app.py:100-110, docker_client.containers.run(..., detach=True, ports=...):
\* the container is created, then started.  The daemon does not start a
\* container that publishes a host port a running container holds: the
\* container stays created and the call raises docker.errors.APIError.
containers_run(host, ports) ==
    IF ports \cap published(host) # {}
    THEN [host |-> Append(host, [ports |-> ports, status |-> "created"]),
          exc |-> "APIError", id |-> Len(host) + 1]
    ELSE [host |-> Append(host, [ports |-> ports, status |-> "running"]),
          exc |-> "", id |-> Len(host) + 1]

\* app.py:84-85: the handler starts and its SELECT reads the table.
SelectSessions(q) ==
    /\ handler[q].pc = "new"
    /\ handler' = [handler EXCEPT ![q].pc = "selected",
                                  ![q].all_sessions = sessions]
    /\ UNCHANGED <<sessions, containers, scalable_vars>>

\* app.py:86-122: the rows arrive; the three ports are searched for, the
\* container is run and the row is added to the ORM session.  An APIError
\* is not caught: the request ends with 500.
RunContainer(q) ==
    /\ handler[q].pc = "selected"
    /\ LET all_sessions == handler[q].all_sessions
           tool_port == free_port(FirstToolPort,
                                  used_ports(all_sessions, "tool_port"))
           vnc_port == free_port(FirstVncPort,
                                 used_ports(all_sessions, "vnc_port"))
           novnc_port == free_port(FirstNovncPort,
                                   used_ports(all_sessions, "novnc_port"))
           out == containers_run(containers,
                                 {tool_port, vnc_port, novnc_port})
       IN /\ containers' = out.host
          /\ handler' =
                [handler EXCEPT ![q] =
                    IF out.exc # ""
                    THEN [@ EXCEPT !.pc = "done", !.status_code = 500]
                    ELSE [@ EXCEPT !.pc = "commit",
                                   !.container_id = out.id,
                                   !.tool_port = tool_port,
                                   !.vnc_port = vnc_port,
                                   !.novnc_port = novnc_port]]
    /\ UNCHANGED <<sessions, scalable_vars>>

\* app.py:123-125: the COMMIT inserts the row, whose id is the next integer.
CommitSession(q) ==
    /\ handler[q].pc = "commit"
    /\ sessions' = Append(sessions,
                          [container_id |-> handler[q].container_id,
                           tool_port |-> handler[q].tool_port,
                           vnc_port |-> handler[q].vnc_port,
                           novnc_port |-> handler[q].novnc_port])
    /\ handler' = [handler EXCEPT ![q].pc = "done",
                                  ![q].status_code = 200,
                                  ![q].session_id = Len(sessions) + 1]
    /\ UNCHANGED <<containers, scalable_vars>>

\* app.py:123: the COMMIT raises; nothing stops the container.
CommitFailed(q) ==
    /\ handler[q].pc = "commit"
    /\ handler' = [handler EXCEPT ![q].pc = "done", ![q].status_code = 500]
    /\ UNCHANGED <<sessions, containers, scalable_vars>>

\* app.py:101-104: the container is detached; its process may end at any
\* time, and the host ports it published are free again.
ContainerExit(c) ==
    /\ c \in DOMAIN containers
    /\ containers[c].status = "running"
    /\ containers' = [containers EXCEPT ![c].status = "exited"]
    /\ UNCHANGED <<sessions, handler, scalable_vars>>

----------------------------------------------------------------------------
(* Specifications.                                                         *)

\* A fresh deployment: empty database, nothing connected, the pool free.
Init ==
    /\ available_agents = ContainerServiceInit.available_agents
    /\ session_assignments = ContainerServiceInit.session_assignments
    /\ call = NoCall
    /\ call1 = NoCall
    /\ call2 = NoCall
    /\ active_connections = ManagerInit.active_connections
    /\ connection_metadata = ManagerInit.connection_metadata
    /\ conn = [w \in Conns |-> NewConn]
    /\ producer = [p \in Producers |-> IdleProducer]
    /\ jobs = [t \in TaskIds |-> NoJob]
    /\ db_sessions = EmptyDict
    /\ chat_history = 0
    /\ req = [r \in Requests |-> IdleReq]
    /\ sessions = <<>>
    /\ containers = <<>>
    /\ handler = [q \in Handlers |-> NewHandler]

AllocNext ==
    \E s \in SessionIds : CallCreate(s) \/ CallStop(s) \/ CallInfo(s)

\* The allocator under direct calls.
SpecAlloc == Init /\ [][AllocNext]_vars

AgentSeq == <<"agent-1", "agent-2", "agent-3">>

\* The process has just started over a database that outlived it: some of
\* the sessions the observers will name have a row, the others have none.
HubInit ==
    /\ available_agents = ContainerServiceInit.available_agents
    /\ session_assignments = ContainerServiceInit.session_assignments
    /\ call = NoCall
    /\ call1 = NoCall
    /\ call2 = NoCall
    /\ active_connections = ManagerInit.active_connections
    /\ connection_metadata = ManagerInit.connection_metadata
    /\ conn = [w \in Conns |-> NewConn]
    /\ producer = [p \in Producers |-> IdleProducer]
    /\ jobs = [t \in TaskIds |-> NoJob]
    /\ \E rows \in SUBSET {s \in WsSessions : s <= Len(AgentSeq)} :
          db_sessions = [s \in rows |->
                SessionRow("active", agent_pool[AgentSeq[s]].container_name)]
    /\ chat_history = 0
    /\ req = [r \in Requests |-> IdleReq]
    /\ sessions = <<>>
    /\ containers = <<>>
    /\ handler = [q \in Handlers |-> NewHandler]

\* Session ids are interchangeable: observers first use them in order.
SessionInOrder(session_id) ==
    \A s \in WsSessions :
        s < session_id => \E w \in Conns : conn[w].session_id = s

WsSteps(websocket) ==
    \/ \E s \in WsSessions : SessionInOrder(s) /\ WsAccept(websocket, s)
    \/ WsRegister(websocket)
    \/ WsLoop(websocket)
    \/ PeerClose(websocket)
    \/ WsReceiveDisconnect(websocket)

WsNext == \E websocket \in Conns : WsSteps(websocket)

\* The connections that are opened when the clients send payloads.
NumInboundConns == 2

InboundNext ==
    \E websocket \in 1..NumInboundConns :
        \/ WsSteps(websocket)
        \/ \E payload \in Payloads : WsReceiveText(websocket, payload)
        \/ WsPersisted(websocket)
        \/ WsPersistFailed(websocket)
        \/ WsSend(websocket)
        \/ WsSleepOver(websocket)
        \/ WsResponsePersisted(websocket)

ProducerNext ==
    \E p \in Producers :
        \/ \E s \in WsSessions : \E e \in EventTypes : ProducerStart(p, s, e)
        \/ ProducerPersisted(p)
        \/ ProducerPersistFailed(p)
        \/ ProducerSend(p)
        \/ ProducerReturn(p)

HubNext == WsNext \/ ProducerNext

SlowNext ==
    \/ \E websocket \in 1..NumInboundConns :
            WsSteps(websocket) \/ PeerStall(websocket) \/ PeerResume(websocket)
    \/ ProducerNext

\* The hub with observers that may stop reading.
SpecSlow == HubInit /\ [][SlowNext]_vars

\* The hub: observers connecting and leaving, events being broadcast.
SpecHub == HubInit /\ [][HubNext]_vars

\* A client learns a session id from the response to its create request.
\* The hub with clients that connect, send payloads and leave.
SpecWs == HubInit /\ [][InboundNext]_vars

\* The sessions whose bindings are acquired and released while a client is
\* connected.  With one client every broadcast is over in its first send, so
\* no broadcast is ever resumed.
AllocSessions == {1}

SharedNext ==
    \/ \E s \in AllocSessions : CallCreate(s) \/ CallStop(s) \/ CallInfo(s)
    \/ \E websocket \in {1} :
        \/ WsSteps(websocket)
        \/ \E payload \in Payloads : WsReceiveText(websocket, payload)
        \/ WsPersisted(websocket)
        \/ WsPersistFailed(websocket)
        \/ WsSleepOver(websocket)
        \/ WsResponsePersisted(websocket)

\* The process as a whole: the module-level ContainerService of the routes
\* (sessions.py:25) is called while the module-level manager (agent_ws.py:232)
\* serves a client.  The manager's own ContainerService (agent_ws.py:25) is
\* never called, so its state never leaves its initial value.
SpecShared == HubInit /\ [][SharedNext]_vars

ObserverNext ==
    \E websocket \in Conns :
        \/ \E s \in DOMAIN db_sessions : WsAccept(websocket, s)
        \/ WsRegister(websocket)
        \/ WsLoop(websocket)
        \/ PeerClose(websocket)
        \/ WsReceiveDisconnect(websocket)

\* The steps of the routes up to the response.
RouteNext ==
    \E r \in Requests :
        \/ CreateStart(r)
        \/ CreateCommit(r)
        \/ CreateDbFail(r)
        \/ \E s \in SessionIds : EndStart(r, s)
        \/ EndCommit(r)
        \/ \E s \in SessionIds : RestartStart(r, s)
        \/ RestartCommit(r)
        \/ UpdateDbFail(r)
        \/ Notify(r)

\* A response leaves in the step after the one that built it.
NoResponse == \A q \in Requests : req[q].pc # "done"

HttpNext ==
    \/ \E r \in Requests : RequestReturn(r)
    \/ NoResponse /\ RouteNext

\* The session routes over the allocator and the database, with no
\* observer connected: every broadcast finds nobody to send to.
SpecHttp == Init /\ [][HttpNext]_vars

ObservedNext ==
    \/ HttpNext
    \/ NoResponse /\ ObserverNext
    \/ NoResponse /\ \E r \in Requests : RequestSend(r)

\* The session routes with observers connecting and leaving.
SpecObserved == Init /\ [][ObservedNext]_vars

CleanupNext ==
    \/ \E r \in Requests : RequestReturn(r)
    \/ /\ NoResponse
       /\ \E r \in Requests :
            \/ CreateStart(r)
            \/ CreateCommit(r)
            \/ CreateDbFail(r)
            \/ \E s \in SessionIds : EndStart(r, s)
            \/ EndCommit(r)
            \/ UpdateDbFail(r)
            \/ Notify(r)
            \/ CleanupSelect(r)
            \/ CleanupReclaim(r)
            \/ CleanupCommit(r)
            \/ CleanupDbFail(r)

\* Sessions being created and ended while stale ones are reclaimed, with no
\* observer connected.
SpecCleanup == Init /\ [][CleanupNext]_vars

RestNext ==
    \/ \E websocket \in 1..NumInboundConns : WsSteps(websocket)
    \/ \E r \in Requests : RequestReturn(r)
    \/ \E r \in Requests :
        \/ \E s \in WsSessions : SendStart(r, s)
        \/ SendCommit(r)
        \/ SendDbFail(r)
        \/ SendPersisted(r)
        \/ SendPersistFailed(r)
        \/ SendBroadcast(r)
        \/ SendSleepOver(r)
        \/ SendResponsePersisted(r)

\* Messages submitted over REST to sessions that have observers.
SpecRest == HubInit /\ [][RestNext]_vars

\* The session whose observers are modelled while sessions are created and
\* ended.
WatchedSessions == {1}

EndNext ==
    \/ \E r \in Requests : RequestReturn(r)
    \/ /\ NoResponse
       /\ \/ \E r \in Requests :
                \/ CreateStart(r)
                \/ CreateCommit(r)
                \/ CreateDbFail(r)
                \/ \E s \in SessionIds : EndStart(r, s)
                \/ EndCommit(r)
                \/ UpdateDbFail(r)
                \/ Notify(r)
                \/ RequestSend(r)
          \/ \E websocket \in 1..NumInboundConns :
                \/ \E s \in WatchedSessions \cap DOMAIN db_sessions :
                        WsAccept(websocket, s)
                \/ WsRegister(websocket)
                \/ PeerClose(websocket)

\* Sessions being created and ended while clients watch the first of them:
\* the clients connect and may go away, and send nothing.
SpecEnd == Init /\ [][EndNext]_vars

CuNext ==
    \/ \E q \in Handlers :
          \/ SelectSessions(q)
          \/ RunContainer(q)
          \/ CommitSession(q)
          \/ CommitFailed(q)
    \/ \E c \in 1..NumHandlers : ContainerExit(c)

\* The single-container backend under concurrent create_session calls.
SpecCu == Init /\ [][CuNext]_vars

----------------------------------------------------------------------------
(* Properties of the allocator, checked under SpecAlloc.                   *)

Assigned == {session_assignments[s] : s \in DOMAIN session_assignments}

PreAssigned(c) == {c.pre.session_assignments[s] : s \in DOMAIN c.pre.session_assignments}

Held(c) == c.session_id \in DOMAIN c.pre.session_assignments

\* C1: after any sequence of create_session_container / stop_session_container
\* calls the available agents and the agents bound in session_assignments are
\* disjoint and together are the whole pool.
C1_Partition ==
    /\ available_agents \cap Assigned = {}
    /\ available_agents \cup Assigned = AgentIds

\* C2: no agent is bound to two sessions at once, and an agent handed to a
\* session by create_session_container is bound to no other session.
C2_Exclusive ==
    /\ \A s, t \in DOMAIN session_assignments :
          s # t => session_assignments[s] # session_assignments[t]
    /\ (call.op = "create" /\ call.exc = "none") =>
          \A t \in DOMAIN session_assignments :
              ConnInfo(session_assignments[t]) = call.val => t = call.session_id

C2_Witness ==
    /\ call1.op = "create" /\ call1.exc = "none"
    /\ call.op = "create" /\ call.exc = "none"
    /\ call1.session_id # call.session_id
    /\ Cardinality(DOMAIN session_assignments) >= 2

\* C3: create_session_container on an empty pool raises at once and leaves the
\* available set and every binding as they were.
C3_ExhaustedNoChange ==
    (call.op = "create" /\ call.pre.available_agents = {}) =>
        /\ call.exc = "Exception"
        /\ cs_now = call.pre

C3_Witness ==
    /\ call.op = "create" /\ call.exc = "Exception"
    /\ available_agents = {}
    /\ Cardinality(DOMAIN session_assignments) = Cardinality(AgentIds)
    /\ call.session_id \notin DOMAIN session_assignments

\* C4: stop_session_container on a session with no binding returns False and
\* changes nothing, also as the second of two stops in a row on one session.
C4_ReleaseUnknownNoOp ==
    /\ (call.op = "stop" /\ ~Held(call)) =>
          /\ call.exc = "none" /\ call.val = <<FALSE>>
          /\ cs_now = call.pre
    /\ (call.op = "stop" /\ call1.op = "stop"
            /\ call.session_id = call1.session_id) =>
          /\ call.exc = "none" /\ call.val = <<FALSE>>
          /\ cs_now = call.pre

C4_Witness ==
    /\ call1.op = "stop" /\ call1.val = <<TRUE>>
    /\ call.op = "stop" /\ call.session_id = call1.session_id
    /\ call.val = <<FALSE>>

\* C5: stop_session_container on a session holding agent a returns True, and
\* afterwards the session has no binding and a is available; no state shows
\* an agent both available and bound (only one of the two changes made).
C5_ReleaseAtomic ==
    /\ (call.op = "stop" /\ Held(call)) =>
          /\ call.exc = "none" /\ call.val = <<TRUE>>
          /\ call.session_id \notin DOMAIN session_assignments
          /\ call.pre.session_assignments[call.session_id] \in available_agents
    /\ available_agents \cap Assigned = {}

C5_Witness ==
    /\ call.op = "stop" /\ Held(call) /\ call.val = <<TRUE>>
    /\ Cardinality(DOMAIN session_assignments) >= 1

\* C6: create_session_container for a session that already holds an agent
\* returns the existing assignment and changes nothing.
C6_AcquireIdempotent ==
    (call.op = "create" /\ Held(call)) =>
        /\ call.exc = "none"
        /\ call.val = ConnInfo(call.pre.session_assignments[call.session_id])
        /\ cs_now = call.pre

\* The agents restart_session can obtain for a session: the idle ones and
\* the one the session gives back.
AfterRelease(session_id) ==
    available_agents \cup
        (IF session_id \in DOMAIN session_assignments
         THEN {session_assignments[session_id]} ELSE {})

\* C7: restart_session on a stored session acts as release followed by
\* acquire.  When no agent is idle after the release the request fails with
\* the capacity error, the session is left with no assignment and nothing
\* else changes; otherwise the session is bound to one of the agents that
\* were idle after the release and that agent alone leaves the idle set.
C7_RestartReleaseThenAcquire ==
    [][\A r \in Requests : \A s \in DOMAIN db_sessions :
          (req[r].pc = "idle" /\ req'[r].kind = "restart"
                /\ req'[r].session_id = s) =>
             IF AfterRelease(s) = {}
             THEN /\ req'[r].pc = "done"
                  /\ req'[r].code = 500
                  /\ req'[r].detail = "No available agent containers"
                  /\ s \notin DOMAIN session_assignments'
                  /\ session_assignments' = session_assignments
                  /\ available_agents' = {}
             ELSE /\ req'[r].pc = "commit"
                  /\ s \in DOMAIN session_assignments'
                  /\ session_assignments'[s] \in AfterRelease(s)
                  /\ req'[r].container = ConnInfo(session_assignments'[s])
                  /\ available_agents' =
                        AfterRelease(s) \ {session_assignments'[s]}
                  /\ \A other \in SessionIds \ {s} :
                        /\ other \in DOMAIN session_assignments'
                              <=> other \in DOMAIN session_assignments
                        /\ other \in DOMAIN session_assignments =>
                              session_assignments'[other]
                                    = session_assignments[other]
      ]_vars

\* A restart has just failed for lack of an agent: the session has a row
\* and no agent, and the agent its row names is held by another session.
C7_Witness ==
    \E r \in Requests :
        /\ req[r].kind = "restart" /\ req[r].pc = "done"
        /\ req[r].code = 500
        /\ req[r].detail = "No available agent containers"
        /\ req[r].session_id \in DOMAIN db_sessions
        /\ req[r].session_id \notin DOMAIN session_assignments
        /\ available_agents = {}
        /\ \E other \in DOMAIN session_assignments :
              ConnInfo(session_assignments[other])[1]
                    = db_sessions[req[r].session_id].container_id

\* C8: get_container_info returns the connection info of the agent bound to
\* the session, or None when there is none, and changes no allocator state.
C8_InfoLookup ==
    (call.op = "info") =>
        /\ call.exc = "none"
        /\ call.val = (IF Held(call)
                       THEN ConnInfo(call.pre.session_assignments[call.session_id])
                       ELSE <<>>)
        /\ cs_now = call.pre

\* C9: a create for s3 fails on an empty pool, then a holder s1 stops, then
\* s3 creates again: that create succeeds with exactly the agent s1 released.
C9_Scenario ==
    /\ call2.op = "create" /\ call2.exc = "Exception"
    /\ call1.op = "stop" /\ call1.val = <<TRUE>>
    /\ call1.session_id # call2.session_id
    /\ call.op = "create" /\ call.session_id = call2.session_id

C9_ReleasedAgentReused ==
    C9_Scenario =>
        /\ call.exc = "none"
        /\ call.val = ConnInfo(call1.pre.session_assignments[call1.session_id])
        /\ call.session_id \in DOMAIN session_assignments
        /\ session_assignments[call.session_id]
              = call1.pre.session_assignments[call1.session_id]

C9_Witness ==
    C9_Scenario /\ call.exc = "none" /\ available_agents = {}

----------------------------------------------------------------------------
(* Properties of the hub, checked under SpecHub.                           *)

Observers(session_id) ==
    IF session_id \in DOMAIN active_connections
    THEN active_connections[session_id] ELSE {}

\* C10: when a broadcast_to_session call over K observers has returned, every
\* observer of its copy whose send did not fail was sent the event, and every
\* observer whose send failed is out of the session's observer set.
C10_BroadcastSurvivesFailure ==
    \A t \in TaskIds : jobs[t].state = "done" =>
        /\ jobs[t].delivered = jobs[t].snapshot \ jobs[t].failed
        /\ jobs[t].failed \subseteq jobs[t].snapshot
        /\ \A websocket \in jobs[t].failed :
              /\ websocket \notin Observers(jobs[t].session_id)
              /\ websocket \notin DOMAIN connection_metadata

C10_Witness ==
    \E t \in TaskIds :
        /\ jobs[t].state = "done"
        /\ Cardinality(jobs[t].snapshot) >= 2
        /\ Cardinality(jobs[t].failed) = 1
        /\ Cardinality(jobs[t].delivered) = Cardinality(jobs[t].snapshot) - 1
        /\ jobs[t].delivered \subseteq Observers(jobs[t].session_id)

\* C11: a failed send is never propagated to the caller of
\* broadcast_to_session: no exception leaves the call, and it returns only
\* after a send was attempted to every member of its copy, whichever of
\* them failed, including all of them.
C11_FailureNotPropagated ==
    \A t \in TaskIds :
        /\ jobs[t].exc = "none"
        /\ jobs[t].state = "done" =>
              /\ jobs[t].remaining = {}
              /\ jobs[t].delivered \cup jobs[t].failed = jobs[t].snapshot

\* A broadcast to two observers has returned and both sends failed.
C11_Witness ==
    \E t \in TaskIds :
        /\ jobs[t].state = "done"
        /\ Cardinality(jobs[t].snapshot) >= 2
        /\ jobs[t].failed = jobs[t].snapshot
        /\ \E websocket \in jobs[t].failed :
              conn[websocket].client_state = "CONNECTED"

\* The record about to be written for task t is that of an event sent to
\* one connection by its endpoint, not that of a broadcast.
DirectSend(t) == t[1] = "conn" /\ conn[t[2]].pc \in {"accepted", "receive"}

\* C12: a broadcast to a session id that has no observer returns at once
\* without error, sends nothing and leaves the registry as it was.
C12_BroadcastNoObservers ==
    [][\A t \in TaskIds :
          (jobs[t].state = "none" /\ jobs'[t].state # "none"
                /\ ~DirectSend(t)
                /\ Observers(jobs'[t].session_id) = {}) =>
             /\ jobs'[t].state = "done"
             /\ jobs'[t].exc = "none"
             /\ jobs'[t].snapshot = {}
             /\ jobs'[t].delivered = {}
             /\ jobs'[t].failed = {}
             /\ active_connections' = active_connections
             /\ connection_metadata' = connection_metadata
             /\ \A u \in TaskIds \ {t} : jobs'[u] = jobs[u]
      ]_vars

\* A broadcast to a session without observers has returned while another
\* session has observers.
C12_Witness ==
    \E t \in TaskIds :
        /\ jobs[t].state = "done"
        /\ t[1] = "producer"
        /\ jobs[t].snapshot = {}
        /\ Observers(jobs[t].session_id) = {}
        /\ DOMAIN active_connections # {}

\* What the endpoint of websocket has just sent in answer to a payload.
Answer(websocket) == jobs[<<"conn", websocket>>]

\* C13: a payload of type ping makes the endpoint send exactly a pong event
\* to the connection it came from; nothing is sent to any other observer and
\* no broadcast is started.
C13_PingAnsweredToSenderOnly ==
    [][\A websocket \in Conns : \A payload \in Payloads :
          (payload.json /\ payload.type = "ping"
                /\ WsReceiveText(websocket, payload)) =>
             /\ Answer(websocket)'.type = "pong"
             /\ Answer(websocket)'.state = "done"
             /\ Answer(websocket)'.snapshot = {websocket}
             /\ Answer(websocket)'.delivered \cup Answer(websocket)'.failed
                   = {websocket}
             /\ \A t \in TaskIds \ {<<"conn", websocket>>} : jobs'[t] = jobs[t]
      ]_vars

\* A pong has been delivered to a connection whose session has a second
\* observer.
C13_Witness ==
    \E websocket \in Conns :
        /\ conn[websocket].pc = "handled"
        /\ Answer(websocket).type = "pong"
        /\ Answer(websocket).delivered = {websocket}
        /\ Observers(conn[websocket].session_id) \ {websocket} # {}

\* C16: a text that is not JSON makes the endpoint send an error event to
\* the connection it came from and to no other; when the send succeeds the
\* registry is unchanged, and the endpoint goes back to receiving.
C16_MalformedAnsweredToSenderOnly ==
    [][\A websocket \in Conns : \A payload \in Payloads :
          (~payload.json /\ WsReceiveText(websocket, payload)) =>
             /\ Answer(websocket)'.type = "error"
             /\ Answer(websocket)'.snapshot = {websocket}
             /\ Answer(websocket)'.delivered \cup Answer(websocket)'.failed
                   = {websocket}
             /\ \A t \in TaskIds \ {<<"conn", websocket>>} : jobs'[t] = jobs[t]
             /\ Answer(websocket)'.delivered = {websocket} =>
                   /\ active_connections' = active_connections
                   /\ connection_metadata' = connection_metadata
             /\ conn'[websocket].pc = "handled"
      ]_vars

\* The error for a malformed text has been delivered to a registered
\* connection whose session has a second observer.
C16_Witness ==
    \E websocket \in Conns :
        /\ conn[websocket].pc = "handled"
        /\ Answer(websocket).type = "error"
        /\ Answer(websocket).delivered = {websocket}
        /\ websocket \in Observers(conn[websocket].session_id)
        /\ Observers(conn[websocket].session_id) \ {websocket} # {}

\* C14: a payload of type message, or without a type, enters
\* handle_user_message with its content; when the row is committed a
\* user_message event with that content and the id of the row is sent over
\* the set of all observers the session has then, the sender among them as
\* long as it is registered, and a send is attempted to each of them.
C14_UserMessageToAllObservers ==
    [][\A websocket \in Conns :
          /\ \A payload \in Payloads :
                (payload.json /\ payload.type \in {"message", "absent"}
                      /\ WsReceiveText(websocket, payload)) =>
                   /\ conn'[websocket].pc = "persist"
                   /\ conn'[websocket].content =
                         (IF payload.content = "absent" THEN ""
                          ELSE payload.content)
          /\ WsPersisted(websocket) =>
                /\ Answer(websocket)'.type = "user_message"
                /\ Answer(websocket)'.content = conn[websocket].content
                /\ Answer(websocket)'.message_id > 0
                /\ Answer(websocket)'.snapshot
                      = Observers(conn[websocket].session_id)
                /\ websocket \in DOMAIN connection_metadata =>
                      websocket \in Answer(websocket)'.snapshot
          /\ (Answer(websocket)'.type = "user_message"
                /\ Answer(websocket)'.state = "done") =>
                Answer(websocket)'.delivered \cup Answer(websocket)'.failed
                      = Answer(websocket)'.snapshot
      ]_vars

\* The message "hi" of one observer has been delivered to it and to a
\* second observer of the session.
C14_Witness ==
    \E websocket \in Conns :
        /\ conn[websocket].pc = "sleep"
        /\ Answer(websocket).type = "user_message"
        /\ Answer(websocket).content = "hi"
        /\ Answer(websocket).message_id > 0
        /\ websocket \in Answer(websocket).delivered
        /\ Cardinality(Answer(websocket).delivered) >= 2

\* C15: when persisting an inbound user message fails, an error event goes
\* to the sending connection only, no user_message event is sent, and the
\* endpoint goes back to receiving.
C15_PersistFailureToSenderOnly ==
    [][\A websocket \in Conns :
          (conn[websocket].pc = "persist" /\ WsPersistFailed(websocket)) =>
             /\ Answer(websocket)'.type = "error"
             /\ Answer(websocket)'.snapshot \subseteq {websocket}
             /\ conn'[websocket].pc \in {"broadcast_error", "handled"}
      ]_vars

\* C17: no session id is ever mapped to an empty observer set; when the
\* last observer of a session is disconnected the entry of the session goes.
C17_NoEmptyObserverSet ==
    \A session_id \in DOMAIN active_connections :
        active_connections[session_id] # {}

\* The only observer of a session has been disconnected, the session has no
\* entry any more, and another session still has observers.
C17_Witness ==
    \E websocket \in Conns :
        /\ conn[websocket].pc = "closed"
        /\ conn[websocket].session_id \notin DOMAIN active_connections
        /\ DOMAIN active_connections # {}

\* C18: disconnect of a connection that is already out of the hub changes
\* neither the observer sets nor the metadata and raises nothing: the
\* endpoint's cleanup after a failed send had removed the connection, or a
\* second failed send to it, leaves the hub as it is.
C18_DisconnectIdempotent ==
    [][\A websocket \in Conns :
          websocket \notin DOMAIN connection_metadata =>
             /\ (conn[websocket].pc = "receive"
                    /\ conn'[websocket].pc = "closed") =>
                   /\ active_connections' = active_connections
                   /\ connection_metadata' = connection_metadata
             /\ (\E t \in TaskIds : websocket \in jobs'[t].failed
                                    /\ websocket \notin jobs[t].failed
                                    /\ jobs[t].state = "sending") =>
                   /\ active_connections' = active_connections
                   /\ connection_metadata' = connection_metadata
      ]_vars

\* A connection was removed by a failed send of a broadcast, its endpoint
\* has then run its cleanup, and the hub still has other connections.
C18_Witness ==
    \E websocket \in Conns :
        /\ conn[websocket].pc = "closed"
        /\ \E t \in TaskIds : websocket \in jobs[t].failed
        /\ DOMAIN connection_metadata # {}

\* C19: connect puts the connection into the observer set of its session id
\* and then sends it the connection/connected event with that session id;
\* if that send fails the connection is taken out again.  No other
\* connection is touched.
C19_ConnectRegistersThenGreets ==
    [][\A websocket \in Conns :
          WsRegister(websocket) =>
             LET session_id == conn[websocket].session_id IN
             /\ Answer(websocket)'.type = "connection"
             /\ Answer(websocket)'.session_id = session_id
             /\ Answer(websocket)'.snapshot = {websocket}
             /\ Answer(websocket)'.delivered = {websocket} =>
                   /\ session_id \in DOMAIN active_connections'
                   /\ active_connections'[session_id]
                         = Observers(session_id) \cup {websocket}
                   /\ websocket \in DOMAIN connection_metadata'
                   /\ connection_metadata'[websocket].session_id = session_id
             /\ Answer(websocket)'.failed = {websocket} =>
                   /\ websocket \notin DOMAIN connection_metadata'
                   /\ active_connections' = active_connections
             /\ \A other \in DOMAIN active_connections \ {session_id} :
                   /\ other \in DOMAIN active_connections'
                   /\ active_connections'[other] = active_connections[other]
      ]_vars

\* A connection has just been registered next to another observer of the
\* same session and has been sent the connection event.
C19_Witness ==
    \E websocket \in Conns :
        /\ conn[websocket].pc = "connected"
        /\ Answer(websocket).type = "connection"
        /\ Answer(websocket).session_id = conn[websocket].session_id
        /\ Answer(websocket).delivered = {websocket}
        /\ websocket \in Observers(conn[websocket].session_id)
        /\ Cardinality(Observers(conn[websocket].session_id)) >= 2

\* C20: broadcast_to_session works on the copy of the observer set it takes
\* when it is called: the copy is the set at that moment and never changes,
\* each turn of the loop attempts exactly one member not attempted before,
\* the call returns when all were attempted, and a connection registered
\* meanwhile is never attempted.
C20_BroadcastOverSnapshot ==
    [][\A t \in TaskIds :
          /\ (jobs[t].state = "none" /\ jobs'[t].state # "none"
                /\ ~DirectSend(t)) =>
                /\ jobs'[t].snapshot = Observers(jobs'[t].session_id)
                /\ Cardinality(jobs'[t].delivered \cup jobs'[t].failed)
                      = IF jobs'[t].snapshot = {} THEN 0 ELSE 1
          /\ (jobs[t].state = "sending" /\ jobs'[t] # jobs[t]) =>
                /\ jobs'[t].snapshot = jobs[t].snapshot
                /\ jobs[t].delivered \subseteq jobs'[t].delivered
                /\ jobs[t].failed \subseteq jobs'[t].failed
                /\ Cardinality(jobs'[t].delivered \cup jobs'[t].failed)
                      = Cardinality(jobs[t].delivered \cup jobs[t].failed) + 1
          /\ jobs'[t].remaining \cup jobs'[t].delivered \cup jobs'[t].failed
                = jobs'[t].snapshot
          /\ jobs'[t].remaining \cap jobs'[t].delivered = {}
          /\ jobs'[t].remaining \cap jobs'[t].failed = {}
          /\ jobs'[t].delivered \cap jobs'[t].failed = {}
          /\ jobs'[t].state = "done" => jobs'[t].remaining = {}
      ]_vars

\* A broadcast over two observers is between its sends while a third
\* connection, absent from the copy, is registered in the session.
C20_Witness ==
    \E t \in TaskIds :
        /\ jobs[t].state = "sending"
        /\ Cardinality(jobs[t].snapshot) >= 2
        /\ Observers(jobs[t].session_id) \ jobs[t].snapshot # {}

\* C21: an observer whose send does not complete neither keeps the event
\* from the other observers nor blocks the producer: as long as the
\* broadcast of a producer has live observers of its copy left to send to,
\* its next send can be made without waiting for anyone else.
C21_SlowObserverDoesNotBlock ==
    \A p \in Producers :
        (/\ producer[p].pc = "broadcast"
         /\ jobs[<<"producer", p>>].state = "sending"
         /\ \E websocket \in jobs[<<"producer", p>>].remaining :
               conn[websocket].peer = "open") =>
            ENABLED ProducerSend(p)

\* A connection that connect has registered and that is no longer in the
\* hub while its endpoint still runs: a send to it has failed.
SendFailed(websocket) ==
    /\ conn[websocket].pc \notin {"new", "accepted", "closed"}
    /\ websocket \notin DOMAIN connection_metadata

\* C22: a failed send is terminal for the connection: it is never put back
\* into an observer set and its endpoint takes no further payload from it
\* (nothing more of it is persisted, broadcast or answered).
C22_SendFailureTerminal ==
    [][\A websocket \in Conns :
          SendFailed(websocket) =>
             /\ websocket \notin DOMAIN connection_metadata'
             /\ \A session_id \in DOMAIN active_connections' :
                   websocket \notin active_connections'[session_id]
             /\ \A payload \in Payloads : ~WsReceiveText(websocket, payload)
      ]_vars

\* C23: when receive_text raises the transport disconnect the loop is left
\* and the cleanup runs in the same step: the endpoint is over and the
\* connection is in no observer set and not in the metadata, and stays so.
C23_TransportDisconnectCleansUp ==
    [][\A websocket \in Conns :
          /\ WsReceiveDisconnect(websocket) =>
                /\ conn'[websocket].pc = "closed"
                /\ websocket \notin DOMAIN connection_metadata'
                /\ \A session_id \in DOMAIN active_connections' :
                      websocket \notin active_connections'[session_id]
          /\ conn[websocket].pc = "closed" =>
                /\ conn'[websocket].pc = "closed"
                /\ websocket \notin DOMAIN connection_metadata'
      ]_vars

\* The endpoint of a connection is over after a transport disconnect while
\* another observer of the same session is still registered.
C23_Witness ==
    \E websocket \in Conns :
        /\ conn[websocket].pc = "closed"
        /\ conn[websocket].client_state = "DISCONNECTED"
        /\ websocket \notin DOMAIN connection_metadata
        /\ Observers(conn[websocket].session_id) # {}

\* C24: a payload whose type is neither message nor ping is ignored: nothing
\* is sent, nothing is persisted, the registry is unchanged and the endpoint
\* goes back to receiving.
C24_UnknownTypeIgnored ==
    [][\A websocket \in Conns : \A payload \in Payloads :
          (payload.json /\ payload.type = "other"
                /\ WsReceiveText(websocket, payload)) =>
             /\ jobs' = jobs
             /\ chat_history' = chat_history
             /\ db_sessions' = db_sessions
             /\ active_connections' = active_connections
             /\ connection_metadata' = connection_metadata
             /\ conn'[websocket].pc = "handled"
             /\ \A other \in Conns \ {websocket} : conn'[other] = conn[other]
      ]_vars

\* A registered connection has had a payload ignored: its endpoint is back
\* at the loop with nothing sent.
C24_Witness ==
    \E websocket \in Conns :
        /\ conn[websocket].pc = "handled"
        /\ Answer(websocket) = NoJob
        /\ websocket \in Observers(conn[websocket].session_id)

\* The endpoint of a connection is between taking a payload and finishing
\* with it.
Processing(websocket) ==
    conn[websocket].pc \in {"persist", "broadcast", "sleep", "persist_response",
                            "broadcast_response", "broadcast_error", "handled"}

\* C25: the payloads of a connection are processed one after the other by
\* its single receive loop: a payload is taken only when nothing of the
\* previous one is left to do, and while one is processed the persistence
\* and the sends made for the connection are those of that payload alone.
C25_PayloadsInArrivalOrder ==
    [][\A websocket \in Conns :
          /\ \A payload \in Payloads :
                WsReceiveText(websocket, payload) =>
                   /\ ~Processing(websocket)
                   /\ Answer(websocket) = NoJob
          /\ (Processing(websocket) /\ conn'[websocket].pc = "receive") =>
                /\ conn[websocket].pc = "handled"
                /\ Answer(websocket).state \in {"none", "done"}
                /\ Answer(websocket)' = NoJob
          /\ (Answer(websocket).state = "sending"
                /\ Answer(websocket)' # Answer(websocket)) =>
                /\ Answer(websocket)'.type = Answer(websocket).type
                /\ Answer(websocket)'.message_id = Answer(websocket).message_id
      ]_vars

\* The only connection there is has had two rows persisted for an earlier
\* payload and is now processing its next message.
C25_Witness ==
    \E websocket \in Conns :
        /\ conn[websocket].pc = "persist"
        /\ chat_history = 2
        /\ \A other \in Conns \ {websocket} : conn[other].pc = "new"

\* C26: an error on the path of one connection ends no other endpoint and
\* removes no other connection: an endpoint ends only when its own
\* receive_text raises, and a connection leaves the hub only in that step or
\* in a step in which a send to itself fails, its own client being gone.
C26_ErrorsStayOnTheirConnection ==
    [][\A websocket \in Conns :
          /\ (conn[websocket].pc # "closed" /\ conn'[websocket].pc = "closed")
                => WsReceiveDisconnect(websocket)
          /\ (websocket \in DOMAIN connection_metadata
                /\ websocket \notin DOMAIN connection_metadata') =>
                /\ conn[websocket].peer = "gone"
                /\ \/ WsReceiveDisconnect(websocket)
                   \/ \E t \in TaskIds : /\ websocket \in jobs'[t].failed
                                         /\ websocket \notin jobs[t].failed
          /\ \A session_id \in DOMAIN active_connections :
                (/\ websocket \in active_connections[session_id]
                 /\ websocket \in DOMAIN connection_metadata') =>
                    /\ session_id \in DOMAIN active_connections'
                    /\ websocket \in active_connections'[session_id]
      ]_vars

\* A send of a broadcast has failed on one connection and the other observer
\* of the session, whose client is there, was sent the event and is still
\* registered.
C26_Witness ==
    \E t \in TaskIds : \E websocket \in Conns :
        /\ Cardinality(jobs[t].failed) = 1
        /\ websocket \in jobs[t].delivered
        /\ websocket \in Observers(jobs[t].session_id)
        /\ conn[websocket].peer = "open"
        /\ conn[websocket].pc \notin {"new", "accepted", "closed"}

----------------------------------------------------------------------------
\* C27: the hub and the allocator share no state.  A step of the hub (a
\* connection being registered or removed, an event being sent) leaves the
\* available set and the bindings as they were; a completed call of an
\* allocator method leaves the observer sets and the connection metadata as
\* they were.
C27_HubAndAllocatorDisjoint ==
    [][/\ (hub_vars' # hub_vars) => (alloc_vars' = alloc_vars)
       /\ (\E s \in AllocSessions :
                CallCreate(s) \/ CallStop(s) \/ CallInfo(s)) =>
              /\ active_connections' = active_connections
              /\ connection_metadata' = connection_metadata]_vars

\* A session is bound to an agent while it has an observer, and the last
\* allocator call was a release that found a binding.
C27_Witness ==
    /\ call.op = "stop"
    /\ call.val = <<TRUE>>
    /\ call1.op = "create"
    /\ DOMAIN active_connections # {}
    /\ DOMAIN connection_metadata # {}
    /\ available_agents # ContainerServiceInit.available_agents

----------------------------------------------------------------------------
\* The connections that are registered for a session: those whose metadata,
\* written at registration, names it.
Registered(session_id) ==
    {websocket \in DOMAIN connection_metadata :
        connection_metadata[websocket].session_id = session_id}

\* C28: between any two steps of the hub, get_session_stats of a session
\* gives the number of connections registered for it (0 for a session with
\* none), get_all_sessions lists exactly the sessions that have a registered
\* observer, each with that number, and neither query changes the hub.
C28_QueriesCountRegistered ==
    /\ \A session_id \in WsSessions :
          LET stats == get_session_stats(hs_now, session_id)
          IN  /\ stats.val.active_connections =
                     Cardinality(Registered(session_id))
              /\ stats.hs = hs_now
              /\ get_all_sessions(stats.hs).hs = hs_now
    /\ LET all == get_all_sessions(hs_now)
       IN  /\ DOMAIN all.val =
                  {session_id \in WsSessions : Registered(session_id) # {}}
           /\ \A session_id \in DOMAIN all.val :
                  all.val[session_id] = Cardinality(Registered(session_id))
           /\ all.hs = hs_now

\* One session has two registered observers, another had its only observer
\* disconnected and has none, while an event is being sent.
C28_Witness ==
    /\ \E session_id \in WsSessions :
          get_session_stats(hs_now, session_id).val.active_connections = 2
    /\ \E websocket \in Conns :
          /\ conn[websocket].pc = "closed"
          /\ Registered(conn[websocket].session_id) = {}
    /\ \E p \in Producers : jobs[<<"producer", p>>].state = "sending"

----------------------------------------------------------------------------
\* C29: every event that is sent to an observer carries a type and a
\* timestamp: the events a connection's endpoint sends or broadcasts
\* (connection, pong, error, user_message, agent_message), and the events of
\* the container producers and of the lifecycle and chat routes.
C29_EventsCarryTypeAndTimestamp ==
    /\ \A task \in TaskIds :
          jobs[task].state # "none" =>
              {"type", "timestamp"} \subseteq Message(jobs[task].type)
    /\ \A type \in EventTypes \cup {LifecycleEvent("end"),
                                     LifecycleEvent("restart"),
                                     "chat_cleared"} :
          {"type", "timestamp"} \subseteq Message(type)

\* A pong and an agent_message have been delivered.
C29_Witness ==
    /\ \E websocket \in Conns :
          /\ Answer(websocket).type = "pong"
          /\ Answer(websocket).delivered = {websocket}
    /\ \E websocket \in Conns :
          /\ Answer(websocket).type = "agent_message"
          /\ Answer(websocket).delivered # {}

----------------------------------------------------------------------------
\* C30: for an inbound user message the row is committed before the event
\* goes out.  While the message of a connection is being persisted nothing
\* has been sent for it; the step that starts the user_message broadcast is
\* the one that commits the row, and the message_id of the event is the id
\* of that row.
C30_PersistBeforeFanOut ==
    [][\A websocket \in Conns :
          /\ conn[websocket].pc = "persist" =>
                /\ Answer(websocket).type # "user_message"
                /\ Answer(websocket).delivered = {}
          /\ (/\ Answer(websocket).type # "user_message"
              /\ Answer(websocket)'.type = "user_message") =>
                /\ conn[websocket].pc = "persist"
                /\ chat_history' = chat_history + 1
                /\ Answer(websocket)'.message_id = chat_history'
      ]_vars

\* The user_message event of the second row of the table has been delivered
\* to two observers.
C30_Witness ==
    \E websocket \in Conns :
        /\ Answer(websocket).type = "user_message"
        /\ Answer(websocket).message_id = 2
        /\ chat_history = 2
        /\ Cardinality(Answer(websocket).delivered) = 2

----------------------------------------------------------------------------
\* C31: handle_container_event commits the row of a durable event
\* (screenshot, tool_result) before it broadcasts the event: while the row
\* is being written nothing has been sent, and the step that starts the
\* broadcast is the one that commits the row.  When the commit fails the
\* handler returns normally, nothing is sent and the hub is unchanged.  An
\* event of another kind is broadcast at once and no row is written.
C31_DurableEventsPersistedFirst ==
    [][\A p \in Producers :
         LET job == jobs[<<"producer", p>>]
             job_ == jobs'[<<"producer", p>>]
         IN  /\ producer[p].pc = "persist" => job = NoJob
             /\ (job.state = "none" /\ job_.state # "none") =>
                   IF job_.type \in DurableTypes
                   THEN /\ producer[p].pc = "persist"
                        /\ chat_history' = chat_history + 1
                   ELSE /\ producer[p].pc = "idle"
                        /\ chat_history' = chat_history
             /\ (producer[p].pc = "persist" /\ chat_history' = chat_history) =>
                   /\ job_ = NoJob
                   /\ producer'[p] \in {producer[p], IdleProducer}
                   /\ (producer'[p] = IdleProducer =>
                          /\ active_connections' = active_connections
                          /\ connection_metadata' = connection_metadata)
      ]_vars

\* A screenshot whose row has been committed is being sent to the observers
\* of its session.
C31_Witness ==
    \E p \in Producers :
        /\ producer[p].pc = "broadcast"
        /\ producer[p].event_type \in DurableTypes
        /\ chat_history >= 1
        /\ jobs[<<"producer", p>>].delivered # {}

----------------------------------------------------------------------------
\* C36: the two dicts of the hub agree in every state between two steps: a
\* connection is in the observer set of session s exactly when it has a
\* metadata entry that names s, so a registered connection is in the set of
\* one session and of no other.
C36_MapsConsistent ==
    /\ \A session_id \in DOMAIN active_connections :
          \A websocket \in active_connections[session_id] :
              /\ websocket \in DOMAIN connection_metadata
              /\ connection_metadata[websocket].session_id = session_id
    /\ \A websocket \in DOMAIN connection_metadata :
          LET session_id == connection_metadata[websocket].session_id
          IN  /\ session_id \in DOMAIN active_connections
              /\ websocket \in active_connections[session_id]
              /\ \A other \in (DOMAIN active_connections) \ {session_id} :
                    websocket \notin active_connections[other]

\* Two sessions have observers, a third connection has been removed after
\* a failed send, and a broadcast is in progress.
C36_Witness ==
    /\ Cardinality(DOMAIN active_connections) = 2
    /\ \E websocket \in Conns :
          /\ conn[websocket].pc \in {"receive", "closed"}
          /\ websocket \notin DOMAIN connection_metadata
    /\ \E p \in Producers :
          /\ jobs[<<"producer", p>>].state = "sending"
          /\ jobs[<<"producer", p>>].failed # {}

----------------------------------------------------------------------------
\* C35: restart_session of a session that holds an agent never fails for
\* want of capacity, whatever other requests are pending: the release and
\* the acquire are one step, so the acquire finds at least the agent that
\* was just released, and the session holds an agent again after the step.
C35_RestartOfHolderHasCapacity ==
    [][\A r \in Requests : \A s \in SessionIds :
          (RestartStart(r, s) /\ s \in DOMAIN session_assignments) =>
             /\ req'[r].pc = "commit"
             /\ req'[r].detail # ExcDetail("Exception")
             /\ s \in DOMAIN session_assignments'
             /\ available_agents' \cup {session_assignments'[s]} =
                    available_agents \cup {session_assignments[s]}
      ]_vars

\* A restart of a session that held an agent is awaiting its commit while no
\* agent is idle and a create request is pending.
C35_Witness ==
    \E r, q \in Requests :
        /\ req[r].kind = "restart" /\ req[r].pc = "commit"
        /\ req[r].session_id \in DOMAIN session_assignments
        /\ req[q].kind = "create" /\ req[q].pc = "commit"
        /\ available_agents = {}

----------------------------------------------------------------------------
----------------------------------------------------------------------------
----------------------------------------------------------------------------
\* No request is in progress.
Quiescent == \A r \in Requests : req[r].pc = "idle"

\* C33: when every request has run to completion, a session holds an agent
\* exactly when its row says "active": no ended session keeps an agent and
\* no active session is without one.
C33_BindingIffActive ==
    Quiescent =>
        /\ \A s \in DOMAIN session_assignments :
              s \in ActiveRows(db_sessions)
        /\ \A s \in ActiveRows(db_sessions) :
              s \in DOMAIN session_assignments

----------------------------------------------------------------------------
\* C37: a user message submitted to send_message is persisted exactly once,
\* and the message_id in the response is the one the observers get: once
\* the route has committed the row and keeps its id for the response, the
\* request writes no further row for the message, and the user_message event
\* it broadcasts carries that id.
C37_RestMessagePersistedOnce ==
    [][\A r \in Requests :
          (/\ req[r].kind = "message"
           /\ req[r].pc = "persist"
           /\ req'[r] # req[r]) =>
             /\ chat_history' = chat_history
             /\ jobs'[<<"request", r>>].type = "user_message" =>
                   jobs'[<<"request", r>>].message_id = req[r].message_id
      ]_vars

----------------------------------------------------------------------------
----------------------------------------------------------------------------
(* The single-container backend: host ports of concurrent creations.       *)

\* C39: under any interleaving of concurrent create_session calls, no two
\* stored sessions have the same tool port, the same VNC port or the same
\* noVNC port.
C39_StoredPortsDistinct ==
    \A i, j \in DOMAIN sessions :
        i # j =>
            /\ sessions[i].tool_port # sessions[j].tool_port
            /\ sessions[i].vnc_port # sessions[j].vnc_port
            /\ sessions[i].novnc_port # sessions[j].novnc_port

====
